---- MODULE Spec2Model ----
(***************************************************************************)
(* A model of the otc-predictor core: the bounded in-memory tick store,    *)
(* the prediction engine (rate limiter, prediction cache, data checks,     *)
(* candle aggregation, consensus) and the result tracker that settles      *)
(* every directional prediction after its horizon.                         *)
(*                                                                         *)
(* Units.  Time is in whole seconds (the feed's epoch).  Prices are        *)
(* integers.  Confidences are in basis points (0.52 = 5200), signal        *)
(* weights in hundredths (0.55 = 55), profit and loss in tenths of a       *)
(* dollar (8.5 = 85).                                                      *)
(***************************************************************************)
EXTENDS Integers, Sequences, FiniteSets, TLC

VARIABLES
    now,              \* the wall clock, in seconds
    maxTicks,         \* MemoryStorage.maxTicks
    markets,          \* MemoryStorage.markets: instrument -> MarketData
    pending,          \* MemoryStorage.pending: prediction id -> PendingPrediction
    results,          \* MemoryStorage.results: instrument -> sequence of TradeResult
    stats,            \* MemoryStorage.stats: instrument -> Stats
    cache,            \* Engine.cache: (instrument, horizon) -> CachedPrediction
    requestCounter,   \* Engine.requestCounter: instrument -> requests accepted
    lastCounterReset, \* Engine.lastCounterReset
    nextId,           \* the next identifier uuid.New() hands out
    task,             \* the checkResultLater goroutines, one per tracked id
    ret,              \* the arguments and the return value of the last Predict call
    adds,             \* number of ticks fed so far (bounds the run)
    arrivals,         \* history: every tick handed to AddTick, in arrival order
    acceptLog,        \* history: instrument -> times of its latest accepted requests
    arg,              \* the input handed to a function under test
    out,              \* what the function returned for it
    pall,             \* a PredictAll call in progress, or its returned map
    counterMu,        \* Engine.counterMu: 0, or the goroutine that holds it
    calls,            \* goroutine -> the Predict call it is running, step by step
    window            \* history: instrument -> requests accepted since the last reset

vars == <<now, maxTicks, markets, pending, results, stats, cache, requestCounter,
          lastCounterReset, nextId, task, ret, adds, arrivals, acceptLog, arg, out, pall,
          counterMu, calls, window>>

-----------------------------------------------------------------------------
(* Bounds of the model *)

\* seconds of run time covered by the settlement specification
SettleHorizon == 40
\* seconds of run time covered by the engine specification
EngineHorizon == 10
\* seconds of run time covered by the rate-limiter specification
RateHorizon == 80
\* ticks fed after the warm start
MaxAdds == 1
\* identifiers uuid.New() may hand out in one run of the settlement specification
MaxIds == 1
\* identifiers uuid.New() may hand out in one run of the engine specification
MaxEngineIds == 2
\* seconds of run time covered by the store specification
StoreHorizon == 10
\* longest signal list handed to the consensus on its own
MaxSignals == 3
\* longest result history handed to UpdateStats on its own
MaxHistory == 22
\* longest result history of which every win/loss pattern is tried
MaxShortHistory == 6
\* longest tick sequence handed to TicksToCandles on its own
MaxTickRun == 4
\* longest candle list handed to ValidateCandles on its own
MaxCandleCount == 16
\* largest minRequired handed to ValidateCandles on its own
MaxMinRequired == 20
\* longest tick sequence handed to CalculateRSI on its own
MaxRsiTicks == 7
\* seconds of the run that records the strategy inputs of each request
StageHorizon == 10
\* predictions computed in that run
MaxStageIds == 1
\* seconds of the run with scheduling assumptions
LiveHorizon == 30
\* goroutines inside Engine.Predict at the same time
MaxCallers == 2
\* seconds of the run with concurrent callers
ConcHorizon == 10
\* predictions computed in that run
MaxConcIds == 2
\* predictions whose settlements may overlap
MaxRaceIds == 2
\* longest signal list handed to the consensus next to an indicator snapshot
MaxFilterSignals == 2
\* seconds of the run that compares the limiter with its copy
AloneHorizon == 140
\* seconds of the run with the cache cleanup
CleanupHorizon == 70
\* predictions computed in that run
MaxCleanupIds == 2
\* largest storage.max_ticks_in_memory tried by the store specification
MaxTicksCap == 3
\* ticks fed in one run of the store specification
MaxArrivals == 4
\* risk.max_predictions_per_minute of the configuration under test
ConfigMaxPredictionsPerMinute == 2

\* the instant at which the runs start
StartTime == 293
\* the clock's granularity, and a longer jump
TimeSteps == {10, 30}

VolMarket == "volatility_100_1s"
FxMarket == "frxEURUSD"
Markets == {VolMarket, FxMarket}
Durations == {30, 90}
Prices == {0, 100, 101}
Ids == 1..(MaxIds + MaxEngineIds)

-----------------------------------------------------------------------------
(* pkg/types *)

Tick(price, ts) == [Price |-> price, Timestamp |-> ts]

NoMarketData == [exists |-> FALSE, Ticks |-> <<>>, LastUpdate |-> 0, IsActive |-> FALSE]

\* types.Prediction{}: every field at its zero value
EmptyPrediction ==
    [ID |-> 0, Market |-> "", MarketType |-> "", Direction |-> "", Confidence |-> 0,
     Reason |-> "", CurrentPrice |-> 0, Duration |-> 0, Timestamp |-> 0, DataPoints |-> 0]

NoPending ==
    [ID |-> 0, Market |-> "", Direction |-> "", EntryPrice |-> 0, EntryTime |-> 0,
     Duration |-> 0, Confidence |-> 0, ExpiryTime |-> 0]

NoResult ==
    [PredictionID |-> 0, Market |-> "", Direction |-> "", EntryPrice |-> 0,
     ExitPrice |-> 0, EntryTime |-> 0, ExitTime |-> 0, Duration |-> 0,
     Confidence |-> 0, Won |-> FALSE, ProfitLoss |-> 0, PriceChange |-> 0]

NoStats ==
    [exists |-> FALSE, TotalTrades |-> 0, Wins |-> 0, Losses |-> 0, WinRate |-> 0,
     TotalProfitLoss |-> 0, BestStreak |-> 0, CurrentStreak |-> 0, RecentTrades |-> <<>>]

NoCached == [present |-> FALSE, Prediction |-> EmptyPrediction, Timestamp |-> 0]

NoTask == [pc |-> "none", p |-> NoPending, started |-> 0, result |-> NoResult, snap |-> 0]

NoReturn == [market |-> "", duration |-> 0, err |-> "", pred |-> EmptyPrediction]

\* no function under test
NoArg == [fn |-> "none"]
NoOut == [fn |-> "none"]

\* no PredictAll call yet
NoPredictAll == [pc |-> "none", duration |-> 0, active |-> {}, todo |-> {}, predictions |-> << >>]

\* the goroutines that call Engine.Predict side by side
Callers == 1..MaxCallers

\* a goroutine outside Predict
NoCall == [pc |-> "idle", market |-> "", duration |-> 0, count |-> 0,
           prediction |-> EmptyPrediction]

\* no Predict call is split into steps: counterMu is free, every goroutine idle
NoCalls ==
    /\ counterMu = 0
    /\ calls = [t \in Callers |-> NoCall]
    /\ window = [m \in Markets |-> 0]

Last(s) == s[Len(s)]

Min(a, b) == IF a < b THEN a ELSE b

Abs(x) == IF x < 0 THEN -x ELSE x

-----------------------------------------------------------------------------
(* internal/storage/memory.go *)

\* the slice expression s[n:] for 0 <= n <= len(s)
SliceFrom(s, n) == SubSeq(s, n + 1, Len(s))

\* a faulty AddTick that trims from the wrong end and keeps the oldest ticks
AddTickMutantKeepOldest(md, tick, cap) ==
    LET appended == Append(md.Ticks, tick)
    IN  [exists |-> TRUE,
         Ticks |-> IF Len(appended) > cap THEN SubSeq(appended, 1, cap) ELSE appended,
         LastUpdate |-> tick.Timestamp,
         IsActive |-> TRUE]

\* MemoryStorage.AddTick: append, record the update time, keep the last maxTicks
StorageAddTick(md, tick, cap) ==
    LET appended == Append(md.Ticks, tick)
    IN  [exists |-> TRUE,
         Ticks |-> IF Len(appended) > cap
                   THEN SliceFrom(appended, Len(appended) - cap)
                   ELSE appended,
         LastUpdate |-> tick.Timestamp,
         IsActive |-> TRUE]

\* MemoryStorage.GetAllTicks
GetAllTicks(mk, m) == IF mk[m].exists THEN mk[m].Ticks ELSE <<>>

\* a faulty GetLatestPrice that reads the first tick of the buffer
GetLatestPriceMutantFirst(mk, m) ==
    IF mk[m].exists /\ Len(mk[m].Ticks) > 0 THEN mk[m].Ticks[1].Price ELSE 0

\* MemoryStorage.GetLatestPrice: the last tick's price, 0 when there is none
GetLatestPrice(mk, m) ==
    IF mk[m].exists /\ Len(mk[m].Ticks) > 0 THEN Last(mk[m].Ticks).Price ELSE 0

\* MemoryStorage.GetActiveMarkets
GetActiveMarkets(mk) == {m \in DOMAIN mk : mk[m].exists /\ mk[m].IsActive /\ Len(mk[m].Ticks) > 0}

\* MemoryStorage.StorePendingPrediction
StorePendingPrediction(pend, p) ==
    [i \in DOMAIN pend \cup {p.ID} |-> IF i = p.ID THEN p ELSE pend[i]]

\* MemoryStorage.RemovePendingPrediction
RemovePendingPrediction(pend, id) == [i \in DOMAIN pend \ {id} |-> pend[i]]

\* MemoryStorage.StoreResult
StoreResult(res, r) == [res EXCEPT ![r.Market] = Append(@, r)]

\* MemoryStorage.GetResults
GetResults(res, m) == res[m]

-----------------------------------------------------------------------------
(* candles: GetTimeframeConfig, TicksToCandles, CandlesToTicks,            *)
(* GetMinimumTicksRequired, ValidateCandles (internal/api/router.go)       *)

\* candles.GetTimeframeConfig: the candle period (seconds) and the minimum candle count
GetTimeframeConfig(durationSeconds, marketType) ==
    IF marketType = "forex"
    THEN IF durationSeconds <= 900 THEN [CandlePeriod |-> 60, MinCandles |-> 15]
         ELSE IF durationSeconds <= 1800 THEN [CandlePeriod |-> 120, MinCandles |-> 18]
         ELSE [CandlePeriod |-> 300, MinCandles |-> 20]
    ELSE IF durationSeconds <= 60 THEN [CandlePeriod |-> 5, MinCandles |-> 15]
         ELSE IF durationSeconds <= 180 THEN [CandlePeriod |-> 10, MinCandles |-> 20]
         ELSE [CandlePeriod |-> 30, MinCandles |-> 25]

\* time.Time.Truncate for a whole-second timestamp
Truncate(ts, period) == ts - (ts % period)

\* a faulty loop body that leaves the close of a running candle at its open
CandleStepMutantKeepClose(acc, tick, period) ==
    LET candleTime == Truncate(tick.Timestamp, period)
    IN  IF ~acc.open \/ acc.cur.Timestamp # candleTime
        THEN [candles |-> IF acc.open THEN Append(acc.candles, acc.cur) ELSE acc.candles,
              cur |-> [Open |-> tick.Price, High |-> tick.Price, Low |-> tick.Price,
                       Close |-> tick.Price, Volume |-> 1, Timestamp |-> candleTime],
              open |-> TRUE]
        ELSE [acc EXCEPT !.cur.High = IF tick.Price > @ THEN tick.Price ELSE @,
                         !.cur.Low = IF tick.Price < @ THEN tick.Price ELSE @,
                         !.cur.Volume = @ + 1]

\* one iteration of the loop of TicksToCandles; acc = [candles, cur, open]
CandleStep(acc, tick, period) ==
    LET candleTime == Truncate(tick.Timestamp, period)
    IN  IF ~acc.open \/ acc.cur.Timestamp # candleTime
        THEN [candles |-> IF acc.open THEN Append(acc.candles, acc.cur) ELSE acc.candles,
              cur |-> [Open |-> tick.Price, High |-> tick.Price, Low |-> tick.Price,
                       Close |-> tick.Price, Volume |-> 1, Timestamp |-> candleTime],
              open |-> TRUE]
        ELSE [acc EXCEPT !.cur.High = IF tick.Price > @ THEN tick.Price ELSE @,
                         !.cur.Low = IF tick.Price < @ THEN tick.Price ELSE @,
                         !.cur.Close = tick.Price,
                         !.cur.Volume = @ + 1]

RECURSIVE CandleLoop(_, _, _, _)
CandleLoop(ticks, period, i, acc) ==
    IF i > Len(ticks) THEN acc
    ELSE CandleLoop(ticks, period, i + 1, CandleStep(acc, ticks[i], period))

\* candles.TicksToCandles
TicksToCandles(ticks, period) ==
    IF Len(ticks) = 0 THEN <<>>
    ELSE LET zero == [Open |-> 0, High |-> 0, Low |-> 0, Close |-> 0, Volume |-> 0,
                      Timestamp |-> 0]
             acc == CandleLoop(ticks, period, 1,
                               [candles |-> <<>>, cur |-> zero, open |-> FALSE])
         IN  Append(acc.candles, acc.cur)

\* candles.CandlesToTicks: one synthetic tick per candle, at its close price
CandlesToTicks(candles) ==
    [i \in 1..Len(candles) |-> Tick(candles[i].Close, candles[i].Timestamp)]

\* candles.GetMinimumTicksRequired
GetMinimumTicksRequired(config, marketType) ==
    IF marketType = "forex" THEN config.MinCandles + 5 ELSE config.MinCandles + 10

\* int(float64(minRequired) * 0.8)
EightyPercent(minRequired) == (minRequired * 8) \div 10

\* candles.ValidateCandles
ValidateCandles(candles, minRequired) ==
    LET zeroVolCount == Cardinality({i \in 1..Len(candles) : candles[i].Volume = 0})
    IN  IF Len(candles) < EightyPercent(minRequired)
        THEN [valid |-> FALSE, reason |-> "insufficient_candles"]
        ELSE IF Len(candles) > 0 /\ 2 * zeroVolCount > Len(candles)
        THEN [valid |-> FALSE, reason |-> "stale_data"]
        ELSE [valid |-> TRUE, reason |-> "valid"]

-----------------------------------------------------------------------------
(* strategy: CombinedStrategy (internal/strategy/volatility.go)            *)

\* strategy.IsForexMarket etc. via CombinedStrategy.getMarketType, on the
\* instruments of this model
getMarketType(market) ==
    CASE market = FxMarket -> "forex"
      [] market = VolMarket -> "volatility"
      [] OTHER -> "unknown"

\* CombinedStrategy.getMinimumRequired
getMinimumRequired(duration, marketType) ==
    IF marketType = "forex"
    THEN IF duration <= 900 THEN 20 ELSE IF duration <= 1800 THEN 25 ELSE 30
    ELSE IF duration <= 30 THEN 20
         ELSE IF duration <= 60 THEN 25
         ELSE IF duration <= 120 THEN 30
         ELSE 35

\* the stale-price test of CombinedStrategy.isMarketTradeable: the last 8 prices
\* all within 0.005% of the first of them
PricesFrozen(ticks) ==
    /\ Len(ticks) >= 8
    /\ LET recent == SliceFrom(ticks, Len(ticks) - 8)
           firstPrice == recent[1].Price
       IN  \A i \in 1..8 : ~(20000 * Abs(recent[i].Price - firstPrice) > firstPrice)

\* CombinedStrategy.isMarketTradeable; volOK is the outcome of the volatility
\* ceiling test on the indicator snapshot
isMarketTradeable(ticks, volOK) == ~PricesFrozen(ticks) /\ volOK

\* a faulty noPrediction that forgets the reason
noPredictionMutantDropReason(base, reason) ==
    [base EXCEPT !.Direction = "NONE", !.Confidence = 0]

\* CombinedStrategy.noPrediction
noPrediction(base, reason) ==
    [base EXCEPT !.Direction = "NONE", !.Confidence = 0, !.Reason = reason]

Signal(name, dir, conf, weight) ==
    [Name |-> name, Direction |-> dir, Confidence |-> conf, Weight |-> weight]

RECURSIVE SumOverMutantElseUp(_, _, _)
\* a faulty vote loop that takes every signal that is not DOWN for an UP signal
SumOverMutantElseUp(list, dir, f) ==
    IF Len(list) = 0 THEN 0
    ELSE LET k == Len(list)
             counted == IF dir = "UP" THEN list[k].Direction # "DOWN"
                        ELSE list[k].Direction = dir
         IN  SumOverMutantElseUp(SubSeq(list, 1, k - 1), dir, f)
             + (IF counted THEN f[k] ELSE 0)

RECURSIVE SumOver(_, _, _)
\* the sum of f[i] over the indices i of list whose direction is dir
SumOver(list, dir, f) ==
    IF Len(list) = 0 THEN 0
    ELSE LET k == Len(list)
         IN  SumOver(SubSeq(list, 1, k - 1), dir, f)
             + (IF list[k].Direction = dir THEN f[k] ELSE 0)

Votes(signals, dir) == SumOver(signals, dir, [i \in 1..Len(signals) |-> 1])
WeightedConfidence(signals, dir) ==
    SumOver(signals, dir, [i \in 1..Len(signals) |-> signals[i].Confidence * signals[i].Weight])
TotalWeight(signals, dir) ==
    SumOver(signals, dir, [i \in 1..Len(signals) |-> signals[i].Weight])

\* a faulty consensus that lets UP win an equal split
marketAwareConsensusMutantTieUp(signals, basePrediction, marketType) ==
    LET upVotes == Votes(signals, "UP")
        downVotes == Votes(signals, "DOWN")
        totalVotes == upVotes + downVotes
        finalDirection ==
            IF upVotes >= downVotes /\ 100 * upVotes >= 40 * totalVotes THEN "UP"
            ELSE IF downVotes > upVotes /\ 100 * downVotes >= 40 * totalVotes THEN "DOWN"
            ELSE "NONE"
        weight == TotalWeight(signals, finalDirection)
        finalConfidence ==
            IF weight = 0 THEN 0 ELSE WeightedConfidence(signals, finalDirection) \div weight
    IN  IF totalVotes = 0 THEN noPrediction(basePrediction, "no_directional_signals")
        ELSE IF finalDirection = "NONE" THEN noPrediction(basePrediction, "conflicting_signals")
        ELSE IF finalConfidence < 5200 THEN noPrediction(basePrediction, "low_confidence")
        ELSE [basePrediction EXCEPT !.Direction = finalDirection,
                                    !.Confidence = finalConfidence,
                                    !.Reason = "accepted"]

\* CombinedStrategy.marketAwareConsensus: required agreement 0.40, minimum
\* confidence 0.52
marketAwareConsensus(signals, basePrediction, marketType) ==
    LET upVotes == Votes(signals, "UP")
        downVotes == Votes(signals, "DOWN")
        totalVotes == upVotes + downVotes
        finalDirection ==
            IF upVotes > downVotes /\ 100 * upVotes >= 40 * totalVotes THEN "UP"
            ELSE IF downVotes > upVotes /\ 100 * downVotes >= 40 * totalVotes THEN "DOWN"
            ELSE "NONE"
        weight == TotalWeight(signals, finalDirection)
        finalConfidence ==
            IF weight = 0 THEN 0 ELSE WeightedConfidence(signals, finalDirection) \div weight
    IN  IF totalVotes = 0 THEN noPrediction(basePrediction, "no_directional_signals")
        ELSE IF finalDirection = "NONE" THEN noPrediction(basePrediction, "conflicting_signals")
        ELSE IF finalConfidence < 5200 THEN noPrediction(basePrediction, "low_confidence")
        ELSE [basePrediction EXCEPT !.Direction = finalDirection,
                                    !.Confidence = finalConfidence,
                                    !.Reason = "accepted"]

\* a faulty GeneratePrediction that looks for signals before it tests the
\* market conditions
GeneratePredictionMutantSignalsFirst(market, ticks, duration, volOK, signals) ==
    LET marketType == getMarketType(market)
        minRequired == getMinimumRequired(duration, marketType)
        prediction == [EmptyPrediction EXCEPT !.Market = market,
                                              !.Direction = "NONE",
                                              !.Duration = duration,
                                              !.Timestamp = Last(ticks).Timestamp,
                                              !.DataPoints = Len(ticks)]
        priced == [prediction EXCEPT !.CurrentPrice = Last(ticks).Price]
    IN  IF Len(ticks) < minRequired
        THEN [prediction EXCEPT !.Reason = "collecting_data"]
        ELSE IF Len(signals) = 0
        THEN [priced EXCEPT !.Reason = "no_signals"]
        ELSE IF ~isMarketTradeable(ticks, volOK)
        THEN [priced EXCEPT !.Reason = "unfavorable_conditions"]
        ELSE marketAwareConsensus(signals, priced, marketType)

\* CombinedStrategy.GeneratePrediction.  ticks is never empty here.  The
\* indicator snapshot is represented by volOK, and the output of the
\* divergence, pattern and category generators by signals.
GeneratePrediction(market, ticks, duration, volOK, signals) ==
    LET marketType == getMarketType(market)
        minRequired == getMinimumRequired(duration, marketType)
        prediction == [EmptyPrediction EXCEPT !.Market = market,
                                              !.Direction = "NONE",
                                              !.Duration = duration,
                                              !.Timestamp = Last(ticks).Timestamp,
                                              !.DataPoints = Len(ticks)]
        priced == [prediction EXCEPT !.CurrentPrice = Last(ticks).Price]
    IN  IF Len(ticks) < minRequired
        THEN [prediction EXCEPT !.Reason = "collecting_data"]
        ELSE IF ~isMarketTradeable(ticks, volOK)
        THEN [priced EXCEPT !.Reason = "unfavorable_conditions"]
        ELSE IF marketType \notin {"volatility", "crash_boom", "forex"}
        THEN [priced EXCEPT !.Reason = "unknown_market_type"]
        ELSE IF Len(signals) = 0
        THEN [priced EXCEPT !.Reason = "no_signals"]
        ELSE marketAwareConsensus(signals, priced, marketType)

-----------------------------------------------------------------------------
(* tracker: ResultTracker (src/unnamed/part_001)                           *)

\* profit on a won trade: 85% of a $10 stake
WinProfit == 85
\* loss on a lost trade: the $10 stake
LossProfit == -100

\* ResultTracker.TrackPrediction: the PendingPrediction it builds
NewPending(pred, currentPrice) ==
    [ID |-> pred.ID, Market |-> pred.Market, Direction |-> pred.Direction,
     EntryPrice |-> currentPrice, EntryTime |-> pred.Timestamp,
     Duration |-> pred.Duration, Confidence |-> pred.Confidence,
     ExpiryTime |-> pred.Timestamp + pred.Duration]

\* a faulty comparison that counts an unchanged price as a win
WonMutantTie(p, currentPrice) ==
    IF p.Direction = "UP" /\ currentPrice >= p.EntryPrice THEN TRUE
    ELSE IF p.Direction = "DOWN" /\ currentPrice <= p.EntryPrice THEN TRUE
    ELSE FALSE

\* ResultTracker.checkResultLater: win or loss of a pending prediction at an exit price
Won(p, currentPrice) ==
    IF p.Direction = "UP" /\ currentPrice > p.EntryPrice THEN TRUE
    ELSE IF p.Direction = "DOWN" /\ currentPrice < p.EntryPrice THEN TRUE
    ELSE FALSE

\* ResultTracker.checkResultLater: the TradeResult it builds at time t
NewResult(p, currentPrice, t) ==
    [PredictionID |-> p.ID, Market |-> p.Market, Direction |-> p.Direction,
     EntryPrice |-> p.EntryPrice, ExitPrice |-> currentPrice,
     EntryTime |-> p.EntryTime, ExitTime |-> t, Duration |-> p.Duration,
     Confidence |-> p.Confidence, Won |-> Won(p, currentPrice),
     ProfitLoss |-> IF Won(p, currentPrice) THEN WinProfit ELSE LossProfit,
     PriceChange |-> currentPrice - p.EntryPrice]

\* a faulty loop body that does not end the running streak at a loss
StatsStepMutantNoReset(acc, result) ==
    LET temp == IF result.Won THEN acc.tempStreak + 1 ELSE acc.tempStreak
    IN  [wins |-> IF result.Won THEN acc.wins + 1 ELSE acc.wins,
         totalPL |-> acc.totalPL + result.ProfitLoss,
         totalConfidence |-> acc.totalConfidence + result.Confidence,
         bestStreak |-> IF result.Won /\ temp > acc.bestStreak THEN temp ELSE acc.bestStreak,
         tempStreak |-> temp]

\* one iteration of the loop of UpdateStats; acc = [wins, totalPL, totalConfidence,
\* bestStreak, tempStreak]
StatsStep(acc, result) ==
    LET temp == IF result.Won THEN acc.tempStreak + 1 ELSE 0
    IN  [wins |-> IF result.Won THEN acc.wins + 1 ELSE acc.wins,
         totalPL |-> acc.totalPL + result.ProfitLoss,
         totalConfidence |-> acc.totalConfidence + result.Confidence,
         bestStreak |-> IF result.Won /\ temp > acc.bestStreak THEN temp ELSE acc.bestStreak,
         tempStreak |-> temp]

RECURSIVE StatsLoop(_, _, _)
StatsLoop(rs, i, acc) ==
    IF i > Len(rs) THEN acc ELSE StatsLoop(rs, i + 1, StatsStep(acc, rs[i]))

\* a faulty UpdateStats whose CurrentStreak counts a closing run of losses
\* below zero
ComputeStatsMutantSignedStreak(rs) ==
    LET acc == StatsLoop(rs, 1, [wins |-> 0, totalPL |-> 0, totalConfidence |-> 0,
                                 bestStreak |-> 0, tempStreak |-> 0])
        recentCount == Min(20, Len(rs))
        lastWin == CHOOSE i \in 0..Len(rs) :
                      /\ i > 0 => rs[i].Won
                      /\ \A j \in (i + 1)..Len(rs) : ~rs[j].Won
    IN  [exists |-> TRUE,
         TotalTrades |-> Len(rs),
         Wins |-> acc.wins,
         Losses |-> Len(rs) - acc.wins,
         WinRate |-> (acc.wins * 10000) \div Len(rs),
         TotalProfitLoss |-> acc.totalPL,
         BestStreak |-> acc.bestStreak,
         CurrentStreak |-> IF acc.tempStreak > 0 THEN acc.tempStreak ELSE lastWin - Len(rs),
         RecentTrades |-> SliceFrom(rs, Len(rs) - recentCount)]

\* ResultTracker.UpdateStats: the Stats computed from a non-empty history
\* (WinRate in hundredths of a percent)
ComputeStats(rs) ==
    LET acc == StatsLoop(rs, 1, [wins |-> 0, totalPL |-> 0, totalConfidence |-> 0,
                                 bestStreak |-> 0, tempStreak |-> 0])
        recentCount == Min(20, Len(rs))
    IN  [exists |-> TRUE,
         TotalTrades |-> Len(rs),
         Wins |-> acc.wins,
         Losses |-> Len(rs) - acc.wins,
         WinRate |-> (acc.wins * 10000) \div Len(rs),
         TotalProfitLoss |-> acc.totalPL,
         BestStreak |-> acc.bestStreak,
         CurrentStreak |-> acc.tempStreak,
         RecentTrades |-> SliceFrom(rs, Len(rs) - recentCount)]

\* calculateQualityScore (handlers.go): the case its streak score falls in
StreakCase(st) ==
    IF ~st.exists THEN "no_stats"
    ELSE IF st.CurrentStreak > 0 THEN "winning"
    ELSE IF st.CurrentStreak < -2 THEN "losing"
    ELSE "neutral"

-----------------------------------------------------------------------------
(* predictor: Engine (internal/predictor/engine.go)                        *)

\* time.Minute, in seconds
Minute == 60

\* Engine.getMarketTypeHelper, on the instruments of this model
getMarketTypeHelper(market) ==
    CASE market = FxMarket -> "forex"
      [] OTHER -> "volatility"

\* Engine.getCacheTimeout, in seconds
getCacheTimeout(duration) ==
    IF duration <= 60 THEN 5
    ELSE IF duration <= 300 THEN 10
    ELSE IF duration <= 900 THEN 20
    ELSE 30

\* strategy.min_confidence of the configuration under test (the default, 0.70)
ConfigMinConfidence == 7000

\* the cap checkRateLimit applies
maxPerMinute ==
    IF ConfigMaxPredictionsPerMinute > 0 THEN ConfigMaxPredictionsPerMinute ELSE 10

\* a faulty limiter that refuses only above the cap
checkRateLimitMutantOffByOne(counter, lastReset, t, market) ==
    LET reset == t - lastReset > Minute
        counter1 == IF reset THEN [m \in Markets |-> 0] ELSE counter
        lastReset1 == IF reset THEN t ELSE lastReset
    IN  IF counter1[market] > maxPerMinute
        THEN [allowed |-> FALSE, requestCounter |-> counter1, lastCounterReset |-> lastReset1]
        ELSE [allowed |-> TRUE,
              requestCounter |-> [counter1 EXCEPT ![market] = @ + 1],
              lastCounterReset |-> lastReset1]

\* a faulty limiter that counts the requests it refuses
checkRateLimitMutantCountRefused(counter, lastReset, t, market) ==
    LET reset == t - lastReset > Minute
        counter1 == IF reset THEN [m \in Markets |-> 0] ELSE counter
        lastReset1 == IF reset THEN t ELSE lastReset
    IN  [allowed |-> counter1[market] < maxPerMinute,
         requestCounter |-> [counter1 EXCEPT ![market] = @ + 1],
         lastCounterReset |-> lastReset1]

\* a faulty limiter that refuses one request early
checkRateLimitMutantEarly(counter, lastReset, t, market) ==
    LET reset == t - lastReset > Minute
        counter1 == IF reset THEN [m \in Markets |-> 0] ELSE counter
        lastReset1 == IF reset THEN t ELSE lastReset
    IN  IF counter1[market] + 1 >= maxPerMinute
        THEN [allowed |-> FALSE, requestCounter |-> counter1, lastCounterReset |-> lastReset1]
        ELSE [allowed |-> TRUE,
              requestCounter |-> [counter1 EXCEPT ![market] = @ + 1],
              lastCounterReset |-> lastReset1]

\* Engine.checkRateLimit at time t: the verdict and the counters it leaves
checkRateLimit(counter, lastReset, t, market) ==
    LET reset == t - lastReset > Minute
        counter1 == IF reset THEN [m \in Markets |-> 0] ELSE counter
        lastReset1 == IF reset THEN t ELSE lastReset
    IN  IF counter1[market] >= maxPerMinute
        THEN [allowed |-> FALSE, requestCounter |-> counter1, lastCounterReset |-> lastReset1]
        ELSE [allowed |-> TRUE,
              requestCounter |-> [counter1 EXCEPT ![market] = @ + 1],
              lastCounterReset |-> lastReset1]

\* a faulty cache check that still serves an entry whose age equals the timeout
CacheHitMutantInclusive(cached, t, cacheTimeout) ==
    cached.present /\ t - cached.Timestamp <= cacheTimeout

\* Engine.Predict: whether the cached entry is served at time t
CacheHit(cached, t, cacheTimeout) == cached.present /\ t - cached.Timestamp < cacheTimeout

\* Engine.Predict: the 5% boost for abundant data, capped at 0.95
QualityBoost(confidence) ==
    LET boosted == (confidence * 105) \div 100
    IN  IF boosted > 9500 THEN 9500 ELSE boosted

\* uuid.New(): the n-th identifier handed out is n
NewId(n) == n

\* Engine.Predict after the rate limit and the cache, up to the strategy: the
\* data checks on the tick window at time t.  Either a neutral prediction is
\* returned at once (ok = FALSE) or the candle closes go to the strategy.
DataStage(market, duration, ticks, t) ==
    LET marketType == getMarketTypeHelper(market)
        tfConfig == GetTimeframeConfig(duration, marketType)
        minRequired == GetMinimumTicksRequired(tfConfig, marketType)
        candleData == TicksToCandles(ticks, tfConfig.CandlePeriod)
        neutral == [EmptyPrediction EXCEPT !.Market = market, !.MarketType = marketType,
                                           !.Direction = "NONE", !.Duration = duration,
                                           !.Timestamp = t, !.DataPoints = Len(ticks)]
    IN  IF Len(ticks) < minRequired
        THEN [ok |-> FALSE, pred |-> [neutral EXCEPT !.Reason = "collecting_data"],
              candleTicks |-> <<>>, boost |-> FALSE]
        ELSE IF ~ValidateCandles(candleData, tfConfig.MinCandles).valid
        THEN [ok |-> FALSE, pred |-> [neutral EXCEPT !.Reason = "data_quality"],
              candleTicks |-> <<>>, boost |-> FALSE]
        ELSE [ok |-> TRUE, pred |-> neutral,
              candleTicks |-> CandlesToTicks(candleData),
              boost |-> Len(candleData) >= tfConfig.MinCandles * 2]

\* Engine.Predict from the strategy call on: the generated prediction with its
\* id, the engine's market type and the quality boost
StrategyStage(market, duration, data, id, volOK, signals) ==
    LET generated == GeneratePrediction(market, data.candleTicks, duration, volOK, signals)
    IN  [generated EXCEPT !.ID = id,
                          !.MarketType = getMarketTypeHelper(market),
                          !.Confidence = IF data.boost THEN QualityBoost(@) ELSE @]

-----------------------------------------------------------------------------
(* Inputs of a prediction request that the model does not compute from the *)
(* ticks: the signals the generators emit, and the volatility test         *)

SignalChoices ==
    { <<>>,
      << Signal("Momentum", "NONE", 6000, 30) >>,
      << Signal("RSI_Divergence", "UP", 6000, 55) >>,
      << Signal("Advanced_Pattern", "DOWN", 9300, 45) >>,
      << Signal("RSI_Divergence", "UP", 6000, 55), Signal("Advanced_Pattern", "DOWN", 6000, 45) >>,
      << Signal("Momentum", "UP", 5000, 30) >> }

StrategyInputs ==
    {[volOK |-> FALSE, signals |-> <<>>]}
        \cup {[volOK |-> TRUE, signals |-> sg] : sg \in SignalChoices}

\* the inputs that decide what the tracker sees: a neutral, an UP and a DOWN outcome
DirectionalInputs ==
    {in \in StrategyInputs :
        in.signals \in { <<>>,
                         << Signal("RSI_Divergence", "UP", 6000, 55) >>,
                         << Signal("Advanced_Pattern", "DOWN", 9300, 45) >> }}

-----------------------------------------------------------------------------
(* Actions *)

\* time passes, up to the end of the run
Advance(d, horizon) ==
    /\ now + d <= StartTime + horizon
    /\ now' = now + d
    /\ UNCHANGED <<maxTicks, markets, pending, results, stats, cache, requestCounter,
                   lastCounterReset, nextId, task, ret, adds, arrivals, acceptLog>>
    /\ UNCHANGED <<arg, out, pall, counterMu, calls, window>>

\* MemoryStorage.AddTick(market, tick), called by the collector with the feed's
\* price and epoch
AddTick(m, price) ==
    /\ markets' = [markets EXCEPT ![m] = StorageAddTick(@, Tick(price, now), maxTicks)]
    /\ UNCHANGED <<now, maxTicks, pending, results, stats, cache, requestCounter,
                   lastCounterReset, nextId, task, ret, acceptLog>>
    /\ UNCHANGED <<arg, out, pall, counterMu, calls, window>>

\* a faulty TrackPrediction that does not test the direction
TrackPredictionMutantNoGuard(pred, currentPrice) ==
    /\ pending' = StorePendingPrediction(pending, NewPending(pred, currentPrice))
    /\ task' = [task EXCEPT ![pred.ID] =
                   [pc |-> "sleep", p |-> NewPending(pred, currentPrice),
                    started |-> now, result |-> NoResult, snap |-> 0]]

\* ResultTracker.TrackPrediction(pred, currentPrice): store the pending
\* prediction and start its checkResultLater goroutine; nothing for NONE
\* (Engine.Predict makes the same test before the call)
TrackPrediction(pred, currentPrice) ==
    IF pred.Direction = "NONE"
    THEN UNCHANGED <<pending, task>>
    ELSE /\ pending' = StorePendingPrediction(pending, NewPending(pred, currentPrice))
         /\ task' = [task EXCEPT ![pred.ID] =
                        [pc |-> "sleep", p |-> NewPending(pred, currentPrice),
                         started |-> now, result |-> NoResult, snap |-> 0]]

\* a faulty cache hit that hands the cached prediction to the tracker again
ServeCachedMutantTrack(m, d, cached) ==
    /\ ret' = [market |-> m, duration |-> d, err |-> "none", pred |-> cached.Prediction]
    /\ TrackPrediction(cached.Prediction, GetLatestPrice(markets, m))
    /\ UNCHANGED <<cache, nextId>>

\* Engine.Predict on a cache hit: return the cached prediction, nothing else
ServeCached(m, d, cached) ==
    /\ ret' = [market |-> m, duration |-> d, err |-> "none", pred |-> cached.Prediction]
    /\ UNCHANGED <<cache, pending, task, nextId>>

\* Engine.Predict(market, duration).  inputs are the strategy inputs the run may
\* meet, idLimit the number of identifiers it may use.
Predict(m, d, inputs, idLimit) ==
    LET rl == checkRateLimit(requestCounter, lastCounterReset, now, m)
        cacheKey == <<m, d>>
        data == DataStage(m, d, GetAllTicks(markets, m), now)
    IN  /\ requestCounter' = rl.requestCounter
        /\ lastCounterReset' = rl.lastCounterReset
        /\ IF ~rl.allowed
           THEN /\ ret' = [market |-> m, duration |-> d, err |-> "rate_limit",
                           pred |-> EmptyPrediction]
                /\ UNCHANGED <<cache, pending, task, nextId>>
           ELSE IF CacheHit(cache[cacheKey], now, getCacheTimeout(d))
           THEN ServeCached(m, d, cache[cacheKey])
           ELSE IF ~data.ok
           THEN /\ ret' = [market |-> m, duration |-> d, err |-> "none", pred |-> data.pred]
                /\ UNCHANGED <<cache, pending, task, nextId>>
           ELSE /\ nextId <= idLimit
                /\ \E in \in inputs :
                     LET prediction == StrategyStage(m, d, data, NewId(nextId),
                                                     in.volOK, in.signals)
                     IN  /\ ret' = [market |-> m, duration |-> d, err |-> "none",
                                    pred |-> prediction]
                         /\ nextId' = nextId + 1
                         /\ cache' = [cache EXCEPT ![cacheKey] =
                                         [present |-> TRUE, Prediction |-> prediction,
                                          Timestamp |-> now]]
                         /\ TrackPrediction(prediction, GetLatestPrice(markets, m))
        /\ UNCHANGED <<now, maxTicks, markets, results, stats, adds, arrivals>>
        /\ UNCHANGED out
        /\ UNCHANGED <<counterMu, calls, window>>

\* a faulty settlement that does not test the price for 0
SettleWakeMutantNoCheck(id) ==
    /\ task[id].pc = "sleep"
    /\ now >= task[id].started + task[id].p.Duration
    /\ LET p == task[id].p
           currentPrice == GetLatestPrice(markets, p.Market)
       IN  /\ task' = [task EXCEPT ![id].pc = "store",
                                    ![id].result = NewResult(p, currentPrice, now)]
           /\ UNCHANGED pending
    /\ UNCHANGED <<now, maxTicks, markets, results, stats, cache, requestCounter,
                   lastCounterReset, nextId, ret, adds, arrivals, acceptLog>>
    /\ UNCHANGED <<arg, out, pall, counterMu, calls, window>>

\* checkResultLater, after time.Sleep: read the latest price; without one drop
\* the pending entry, otherwise build the TradeResult
SettleWake(id) ==
    /\ task[id].pc = "sleep"
    /\ now >= task[id].started + task[id].p.Duration
    /\ LET p == task[id].p
           currentPrice == GetLatestPrice(markets, p.Market)
       IN  IF currentPrice = 0
           THEN /\ pending' = RemovePendingPrediction(pending, p.ID)
                /\ task' = [task EXCEPT ![id].pc = "done"]
           ELSE /\ task' = [task EXCEPT ![id].pc = "store",
                                        ![id].result = NewResult(p, currentPrice, now)]
                /\ UNCHANGED pending
    /\ UNCHANGED <<now, maxTicks, markets, results, stats, cache, requestCounter,
                   lastCounterReset, nextId, ret, adds, arrivals, acceptLog>>
    /\ UNCHANGED <<arg, out, pall, counterMu, calls, window>>

\* a faulty settlement that stores the result and leaves the pending entry
SettleStoreMutantKeepPending(id) ==
    /\ task[id].pc = "store"
    /\ results' = StoreResult(results, task[id].result)
    /\ pending' = pending
    /\ task' = [task EXCEPT ![id].pc = "stats",
                            ![id].snap = Len(GetResults(results', task[id].p.Market))]
    /\ UNCHANGED <<now, maxTicks, markets, stats, cache, requestCounter,
                   lastCounterReset, nextId, ret, adds, arrivals, acceptLog>>
    /\ UNCHANGED <<arg, out, pall, counterMu, calls, window>>

\* checkResultLater: StoreResult, RemovePendingPrediction, and the GetResults
\* that opens UpdateStats
SettleStore(id) ==
    /\ task[id].pc = "store"
    /\ results' = StoreResult(results, task[id].result)
    /\ pending' = RemovePendingPrediction(pending, task[id].p.ID)
    /\ task' = [task EXCEPT ![id].pc = "stats",
                            ![id].snap = Len(GetResults(results', task[id].p.Market))]
    /\ UNCHANGED <<now, maxTicks, markets, stats, cache, requestCounter,
                   lastCounterReset, nextId, ret, adds, arrivals, acceptLog>>
    /\ UNCHANGED <<arg, out, pall, counterMu, calls, window>>

\* UpdateStats: compute the Stats from the history read and store them
SettleStats(id) ==
    /\ task[id].pc = "stats"
    /\ LET m == task[id].p.Market
           read == SubSeq(results[m], 1, task[id].snap)
       IN  stats' = IF Len(read) = 0 THEN stats
                    ELSE [stats EXCEPT ![m] = ComputeStats(read)]
    /\ task' = [task EXCEPT ![id].pc = "done", ![id].result = NoResult, ![id].snap = 0]
    /\ UNCHANGED <<now, maxTicks, markets, pending, results, cache, requestCounter,
                   lastCounterReset, nextId, ret, adds, arrivals, acceptLog>>
    /\ UNCHANGED <<arg, out, pall, counterMu, calls, window>>

-----------------------------------------------------------------------------
(* The running system, from a warm start: the volatility instrument has 30 *)
(* ticks, one every 10 s, the forex instrument 19 ticks inside 5 minutes   *)

WarmVolTicks == [i \in 1..30 |-> Tick(100 + (i % 2), 10 * i - 7)]
WarmFxTicks == [i \in 1..19 |-> Tick(100 + (i % 2), 15 * i)]

Init ==
    /\ now = StartTime
    /\ maxTicks = 31
    /\ markets = [m \in Markets |->
                    [exists |-> TRUE,
                     Ticks |-> IF m = VolMarket THEN WarmVolTicks ELSE WarmFxTicks,
                     LastUpdate |-> Last(IF m = VolMarket THEN WarmVolTicks ELSE WarmFxTicks).Timestamp,
                     IsActive |-> TRUE]]
    /\ pending = << >>
    /\ results = [m \in Markets |-> <<>>]
    /\ stats = [m \in Markets |-> NoStats]
    /\ cache = [k \in Markets \X Durations |-> NoCached]
    /\ requestCounter = [m \in Markets |-> 0]
    /\ lastCounterReset = 0
    /\ nextId = 1
    /\ task = [i \in Ids |-> NoTask]
    /\ ret = NoReturn
    /\ adds = 0
    /\ arrivals = <<>>
    /\ acceptLog = [m \in Markets |-> <<>>]
    /\ arg = NoArg
    /\ out = NoOut
    /\ pall = NoPredictAll
    /\ NoCalls

\* the collector feeds a tick
FeedTick(m, price, limit) ==
    /\ adds < limit
    /\ adds' = adds + 1
    /\ AddTick(m, price)
    /\ UNCHANGED arrivals

\* Requests and ticks for the volatility instrument at the 30 s horizon, and
\* the settlement of every prediction they produce
Next ==
    \/ \E d \in TimeSteps : Advance(d, SettleHorizon)
    \/ \E price \in Prices : FeedTick(VolMarket, price, MaxAdds)
    \/ \E d \in {30} : Predict(VolMarket, d, DirectionalInputs, MaxIds)
                          /\ UNCHANGED <<acceptLog, arg, pall>>
    \/ \E id \in Ids : SettleWake(id)
    \/ \E id \in Ids : SettleStore(id)
    \/ \E id \in Ids : SettleStats(id)

Spec == Init /\ [][Next]_vars

-----------------------------------------------------------------------------
(* Properties of the settlement of tracked predictions (Spec) *)

\* every TradeResult stored, over all instruments
AllResults == UNION {{results[m][i] : i \in 1..Len(results[m])} : m \in Markets}

\* the number of TradeResults stored for a prediction id
ResultCount(id) ==
    LET Count(m) == Cardinality({i \in 1..Len(results[m]) : results[m][i].PredictionID = id})
    IN  Count(VolMarket) + Count(FxMarket)

\* how far the settlement of a prediction has got
PcRank(pc) ==
    CASE pc = "none" -> 0 [] pc = "sleep" -> 1 [] pc = "store" -> 2
      [] pc = "stats" -> 3 [] OTHER -> 4

\* C1: a prediction id is registered as pending at most once and settled at
\* most once: no id ever has two TradeResults, a result exists only for an id
\* whose settlement has stored it, a registered id is never registered again
\* (its pending data and its settlement never restart, whatever Predict calls
\* follow, cache hits included), and only an id never seen before enters the
\* pending set.
C1_ExactlyOnce ==
    /\ [](\A id \in Ids :
            /\ ResultCount(id) <= 1
            /\ ResultCount(id) = 1 => task[id].pc \in {"stats", "done"}
            /\ id \in DOMAIN pending => task[id].pc \in {"sleep", "store"})
    /\ [][\A id \in Ids :
            /\ task[id].pc # "none" =>
                  /\ task'[id].p = task[id].p
                  /\ task'[id].started = task[id].started
                  /\ PcRank(task'[id].pc) >= PcRank(task[id].pc)
            /\ (id \in DOMAIN pending' /\ id \notin DOMAIN pending) => task[id].pc = "none"
            /\ ResultCount(id)' >= ResultCount(id)]_vars

\* a settled id with its one result, just served once more from the cache
C1_Witness ==
    \E id \in Ids :
        /\ task[id].pc = "done"
        /\ ResultCount(id) = 1
        /\ requestCounter[VolMarket] = 2
        /\ ret.err = "none"
        /\ ret.pred.ID = id

\* C2: the settlement of a pending prediction reads the price only when its
\* Duration has elapsed since TrackPrediction accepted it, the ExitPrice of the
\* TradeResult is the price of the last tick stored at that moment, the result
\* stored is that TradeResult, and no result is in the history before the
\* Duration has elapsed.
C2_SettleAfterHorizon ==
    /\ [](\A r \in AllResults :
            now >= task[r.PredictionID].started + r.Duration)
    /\ [][\A id \in Ids :
            LET m == task[id].p.Market IN
            /\ (task[id].pc = "sleep" /\ task'[id].pc = "store") =>
                  /\ now >= task[id].started + task[id].p.Duration
                  /\ task'[id].result.ExitPrice = Last(markets[m].Ticks).Price
                  /\ task'[id].result.ExitTime = now
            /\ (task[id].pc = "store" /\ task'[id].pc = "stats") =>
                  results'[m] = Append(results[m], task[id].result)
            /\ ResultCount(id)' # ResultCount(id) =>
                  (task[id].pc = "store" /\ task'[id].pc = "stats")]_vars

\* a result whose exit price is that of a tick that arrived after acceptance
C2_Witness ==
    \E id \in Ids : \E r \in AllResults :
        /\ r.PredictionID = id
        /\ Last(markets[r.Market].Ticks).Timestamp > task[id].started
        /\ r.ExitPrice = Last(markets[r.Market].Ticks).Price
        /\ r.ExitPrice # r.EntryPrice
        /\ r.ExitTime >= task[id].started + r.Duration

\* C3: the settlement check of a pending prediction runs at EntryTime + horizon,
\* which is its ExpiryTime, and the prediction is pending only between its
\* EntryTime and its ExpiryTime.
C3_SettlesAtExpiryTime ==
    \A id \in Ids :
        /\ task[id].pc = "sleep" =>
              /\ task[id].p.ExpiryTime = task[id].p.EntryTime + task[id].p.Duration
              /\ task[id].started + task[id].p.Duration = task[id].p.ExpiryTime
        /\ id \in DOMAIN pending =>
              (pending[id].EntryTime <= now /\ now <= pending[id].ExpiryTime)

\* C4: in every TradeResult, Won holds exactly when the exit price is strictly
\* above the entry price for UP or strictly below it for DOWN, PriceChange is
\* exit minus entry, ProfitLoss is +8.5 when Won and -10 otherwise (tenths of a
\* dollar), and an unchanged price is a loss.
C4_WinLoss ==
    \A id \in Ids :
        \A r \in AllResults \cup (IF task[id].pc = "store" THEN {task[id].result} ELSE {}) :
            /\ r.Direction \in {"UP", "DOWN"}
            /\ r.Won <=> \/ (r.Direction = "UP" /\ r.ExitPrice > r.EntryPrice)
                         \/ (r.Direction = "DOWN" /\ r.ExitPrice < r.EntryPrice)
            /\ r.PriceChange = r.ExitPrice - r.EntryPrice
            /\ r.ProfitLoss = IF r.Won THEN 85 ELSE -100
            /\ r.ExitPrice = r.EntryPrice => (~r.Won /\ r.ProfitLoss = -100)

\* a stored result whose price did not move: a loss
C4_Witness ==
    \E r \in AllResults : r.ExitPrice = r.EntryPrice /\ ~r.Won /\ r.ProfitLoss = -100

\* C5: when the latest price reads 0 at settlement, the pending prediction is
\* removed, no TradeResult is built or stored, results and Stats stay as they
\* are and the settlement ends; no stored result has exit price 0.
C5_ZeroPriceDropped ==
    /\ [](\A r \in AllResults : r.ExitPrice # 0)
    /\ [][\A id \in Ids :
            (/\ task[id].pc = "sleep"
             /\ task'[id].pc # "sleep"
             /\ GetLatestPrice(markets, task[id].p.Market) = 0) =>
                /\ task'[id].pc = "done"
                /\ id \notin DOMAIN pending'
                /\ task'[id].result = NoResult
                /\ results' = results
                /\ stats' = stats]_vars

\* a prediction dropped at settlement: finished, not pending, without a result,
\* the price of its instrument reading 0
C5_Witness ==
    \E id \in Ids :
        /\ task[id].pc = "done"
        /\ ResultCount(id) = 0
        /\ id \notin DOMAIN pending
        /\ GetLatestPrice(markets, task[id].p.Market) = 0
        /\ stats[task[id].p.Market] = NoStats

\* Requests for both instruments at both horizons, within the shortest horizon
\* (no settlement falls due); the forex instrument receives one more tick
EngineRequests == {<<VolMarket, 30>>, <<VolMarket, 90>>, <<FxMarket, 30>>}

EngineNext ==
    \/ \E d \in TimeSteps : Advance(d, EngineHorizon)
    \/ \E price \in {100} : FeedTick(FxMarket, price, 1)
    \/ \E rq \in EngineRequests : Predict(rq[1], rq[2], StrategyInputs, MaxEngineIds)
                                    /\ UNCHANGED <<acceptLog, arg, pall>>

SpecEngine == Init /\ [][EngineNext]_vars

-----------------------------------------------------------------------------
(* Properties of Engine.Predict (SpecEngine) *)

\* a step taken by a Predict call (the clock and the ticks stand still), whose
\* arguments ret' carries
PredictStep == now' = now /\ markets' = markets /\ ret'.market \in Markets

\* the request finds its instrument's counter at the cap inside the current window
AtCap(m) == requestCounter[m] >= maxPerMinute /\ now - lastCounterReset <= Minute

\* C7: a Predict call refused by the rate limiter changes neither the cache,
\* nor the pending table, nor the results, nor any request counter (nor the
\* window start, the id source, the Stats or any settlement); and a call that
\* finds its counter at the cap is refused whatever the cache holds.
C7_RefusedDoesNothing ==
    [][PredictStep =>
          /\ ret'.err = "rate_limit" =>
                /\ cache' = cache
                /\ pending' = pending
                /\ results' = results
                /\ requestCounter' = requestCounter
                /\ lastCounterReset' = lastCounterReset
                /\ nextId' = nextId
                /\ stats' = stats
                /\ task' = task
                /\ ret'.pred = EmptyPrediction
          /\ AtCap(ret'.market) => ret'.err = "rate_limit"]_vars

\* a refused call although the cache holds a still-valid entry for its key
C7_Witness ==
    /\ ret.err = "rate_limit"
    /\ cache[<<ret.market, ret.duration>>].present
    /\ now - cache[<<ret.market, ret.duration>>].Timestamp < 5
    /\ requestCounter[ret.market] = maxPerMinute

\* the reasons a neutral Prediction carries
NeutralReasons ==
    {"collecting_data", "data_quality", "unfavorable_conditions", "unknown_market_type",
     "no_signals", "no_directional_signals", "conflicting_signals", "low_confidence"}

\* C8: Predict returns an error only when the request finds its counter at the
\* cap, and then the error is the rate-limit error; every neutral outcome
\* (insufficient data, candle quality, unfavorable conditions, no signals, no
\* consensus, low confidence) is returned without error as a Prediction with
\* Direction NONE and its reason.
C8_ErrorOnlyRateLimit ==
    /\ [](/\ ret.err \in {"", "none", "rate_limit"}
          /\ ret.err = "none" =>
                /\ ret.pred.Direction \in {"NONE", "UP", "DOWN"}
                /\ ret.pred.Market = ret.market
                /\ ret.pred.Direction = "NONE" => ret.pred.Reason \in NeutralReasons
          /\ ret.pred.Reason \in NeutralReasons =>
                (ret.err = "none" /\ ret.pred.Direction = "NONE"))
    /\ [][PredictStep =>
            /\ ret'.err \in {"none", "rate_limit"}
            /\ ret'.err # "none" => (ret'.err = "rate_limit" /\ AtCap(ret'.market))]_vars

\* a weak consensus returned as a neutral Prediction, without error
C8_Witness ==
    /\ ret.err = "none"
    /\ ret.pred.Direction = "NONE"
    /\ ret.pred.Reason = "low_confidence"
    /\ ret.pred.ID # 0

\* the horizon-scaled lifetime of a cache entry, in seconds
TTL(duration) ==
    CASE duration <= 60 -> 5
      [] duration > 60 /\ duration <= 300 -> 10
      [] duration > 300 /\ duration <= 900 -> 20
      [] OTHER -> 30

\* C9: an accepted Predict call that finds a cache entry for its (instrument,
\* horizon) younger than the TTL returns exactly that entry's Prediction, id
\* included, and computes nothing (no new id, no cache write, no registration);
\* one that finds the entry at or past the TTL does not return it: it returns a
\* fresh neutral Prediction without id or a recomputed one with the next id,
\* which replaces the entry.  A returned Prediction with an id is always the
\* cache entry of its key, as computed.
C9_CacheWithinTTL ==
    /\ []((ret.err = "none" /\ ret.pred.ID # 0) =>
             /\ cache[<<ret.market, ret.duration>>].present
             /\ cache[<<ret.market, ret.duration>>].Prediction = ret.pred)
    /\ [][(PredictStep /\ ret'.err = "none") =>
            LET k == <<ret'.market, ret'.duration>>
                age == now - cache[k].Timestamp
            IN  /\ (cache[k].present /\ age < TTL(ret'.duration)) =>
                      /\ ret'.pred = cache[k].Prediction
                      /\ cache' = cache
                      /\ nextId' = nextId
                      /\ pending' = pending
                      /\ task' = task
                /\ (cache[k].present /\ age >= TTL(ret'.duration)) =>
                      /\ ret'.pred # cache[k].Prediction
                      /\ ret'.pred.ID \in {0, nextId}
                      /\ ret'.pred.ID = nextId =>
                            cache'[k] = [present |-> TRUE, Prediction |-> ret'.pred,
                                         Timestamp |-> now]]_vars

\* the second accepted request of the volatility instrument was answered with
\* the only directional prediction computed so far
C9_Witness ==
    /\ ret.err = "none"
    /\ ret.market = VolMarket
    /\ ret.pred.ID = 1
    /\ ret.pred.Direction \in {"UP", "DOWN"}
    /\ nextId = 2
    /\ requestCounter[VolMarket] = 2

\* C11: every Prediction returned without error whose direction is NONE has
\* confidence 0 and a non-empty reason, whether the engine's data checks, the
\* pre-filter, the empty signal list, the consensus or the confidence
\* threshold rejected it, and whether it was computed or served from the cache.
C11_NeutralZeroConfidence ==
    /\ (ret.err = "none" /\ ret.pred.Direction = "NONE") =>
          (ret.pred.Confidence = 0 /\ ret.pred.Reason # "")
    /\ \A k \in DOMAIN cache :
          (cache[k].present /\ cache[k].Prediction.Direction = "NONE") =>
              (cache[k].Prediction.Confidence = 0 /\ cache[k].Prediction.Reason # "")

\* a consensus rejected for conflicting votes, returned with an id
C11_Witness ==
    /\ ret.err = "none"
    /\ ret.pred.Direction = "NONE"
    /\ ret.pred.Reason = "conflicting_signals"
    /\ ret.pred.Confidence = 0
    /\ ret.pred.ID # 0

\* C13: a directional Prediction is returned only with a confidence of at
\* least the configured strategy.min_confidence.
C13_ConfiguredMinimum ==
    (ret.err = "none" /\ ret.pred.Direction \in {"UP", "DOWN"}) =>
        ret.pred.Confidence >= ConfigMinConfidence

\* the predictions with an id that the engine has computed and still caches
Computed == {cache[k].Prediction : k \in {c \in DOMAIN cache : cache[c].present}}

\* a step taken by a Predict call that passed the rate limiter: it counted the
\* request or restarted the window, which no other step does
AcceptedStep ==
    /\ PredictStep
    /\ <<requestCounter, lastCounterReset>>' # <<requestCounter, lastCounterReset>>

\* C14: a Prediction with direction NONE is never handed on: the Predict call
\* that returns one changes neither the pending table nor any settlement nor
\* the results; its id never has a pending entry, a settlement task or a
\* TradeResult; every pending entry and every TradeResult is UP or DOWN.
C14_OnlyDirectionalTracked ==
    /\ [](/\ \A p \in Computed :
                p.Direction = "NONE" =>
                    /\ task[p.ID].pc = "none"
                    /\ p.ID \notin DOMAIN pending
                    /\ ResultCount(p.ID) = 0
          /\ \A id \in DOMAIN pending : pending[id].Direction \in {"UP", "DOWN"}
          /\ \A id \in Ids : task[id].pc # "none" => task[id].p.Direction \in {"UP", "DOWN"}
          /\ \A r \in AllResults : r.Direction \in {"UP", "DOWN"})
    /\ [][(AcceptedStep /\ ret'.err = "none" /\ ret'.pred.Direction = "NONE") =>
            (pending' = pending /\ task' = task /\ results' = results)]_vars

\* a neutral prediction with an id, past its horizon, that nothing tracks
C14_Witness ==
    \E p \in Computed :
        /\ p.Direction = "NONE"
        /\ p.ID # 0
        /\ now >= StartTime + p.Duration
        /\ task[p.ID].pc = "none"
        /\ pending = << >>
        /\ AllResults = {}

-----------------------------------------------------------------------------
(* The rate limiter from a cold start (no ticks yet: every accepted request *)
(* ends in "collecting data"), with the log of accepted requests           *)

ColdInit ==
    /\ now = StartTime
    /\ maxTicks = 500
    /\ markets = [m \in Markets |-> NoMarketData]
    /\ pending = << >>
    /\ results = [m \in Markets |-> <<>>]
    /\ stats = [m \in Markets |-> NoStats]
    /\ cache = [k \in Markets \X Durations |-> NoCached]
    /\ requestCounter = [m \in Markets |-> 0]
    /\ lastCounterReset = StartTime
    /\ nextId = 1
    /\ task = [i \in Ids |-> NoTask]
    /\ ret = NoReturn
    /\ adds = 0
    /\ arrivals = <<>>
    /\ acceptLog = [m \in Markets |-> <<>>]
    /\ arg = NoArg
    /\ out = NoOut
    /\ pall = NoPredictAll
    /\ NoCalls

\* the last n elements of s
KeepLast(s, n) == IF Len(s) > n THEN SliceFrom(s, Len(s) - n) ELSE s

\* a Predict call, logged when accepted
LoggedPredict(m, d) ==
    /\ Predict(m, d, StrategyInputs, MaxIds)
    /\ acceptLog' = IF ret'.err = "none"
                    THEN [acceptLog EXCEPT ![m] = KeepLast(Append(@, now), maxPerMinute + 1)]
                    ELSE acceptLog
    /\ UNCHANGED <<arg, pall>>

RateNext ==
    \/ \E d \in TimeSteps : Advance(d, RateHorizon)
    \/ \E m \in Markets : LoggedPredict(m, 30)

SpecRate == ColdInit /\ [][RateNext]_vars

\* C6: the limiter counts per fixed window: an instrument never has more than
\* the cap N of accepted requests since the last reset of the counters; a
\* request is refused exactly when N requests of its instrument were accepted
\* since the last reset and that reset is at most a minute old; the first
\* request (of any instrument) more than a minute after the last reset is
\* accepted, restarts the window at its own time and clears every counter.
C6_FixedWindowCap ==
    /\ [](\A m \in Markets :
            /\ requestCounter[m] <= maxPerMinute
            /\ requestCounter[m] =
                  Cardinality({i \in 1..Len(acceptLog[m]) : acceptLog[m][i] >= lastCounterReset}))
    /\ [][PredictStep =>
            LET m == ret'.market IN
            /\ ret'.err = "rate_limit" <=> AtCap(m)
            /\ now - lastCounterReset > Minute =>
                  /\ ret'.err = "none"
                  /\ lastCounterReset' = now
                  /\ requestCounter' = [o \in Markets |-> IF o = m THEN 1 ELSE 0]
            /\ now - lastCounterReset <= Minute => lastCounterReset' = lastCounterReset]_vars

\* a request refused in a window that is not the first: its instrument has had
\* more than N requests accepted over the run, N of them in the current window
C6_Witness ==
    /\ ret.err = "rate_limit"
    /\ requestCounter[ret.market] = maxPerMinute
    /\ Len(acceptLog[ret.market]) = maxPerMinute + 1
    /\ now - lastCounterReset <= Minute
    /\ lastCounterReset > StartTime

\* C6 as stated: N + 1 accepted requests of one instrument never fall within a
\* rolling minute
C6_RollingMinuteCap ==
    \A m \in Markets :
        Len(acceptLog[m]) = maxPerMinute + 1 =>
            Last(acceptLog[m]) - acceptLog[m][1] >= Minute

-----------------------------------------------------------------------------
(* The tick store alone, from construction with a small maxTicks, with the *)
(* log of the ticks it was handed                                          *)

StoreInit ==
    /\ now = StartTime
    /\ maxTicks \in 1..MaxTicksCap
    /\ markets = [m \in Markets |-> NoMarketData]
    /\ pending = << >>
    /\ results = [m \in Markets |-> <<>>]
    /\ stats = [m \in Markets |-> NoStats]
    /\ cache = [k \in Markets \X Durations |-> NoCached]
    /\ requestCounter = [m \in Markets |-> 0]
    /\ lastCounterReset = StartTime
    /\ nextId = 1
    /\ task = [i \in Ids |-> NoTask]
    /\ ret = NoReturn
    /\ adds = 0
    /\ arrivals = <<>>
    /\ acceptLog = [m \in Markets |-> <<>>]
    /\ arg = NoArg
    /\ out = NoOut
    /\ pall = NoPredictAll
    /\ NoCalls

\* an AddTick call, logged
LoggedAddTick(m, price) ==
    /\ Len(arrivals) < MaxArrivals
    /\ AddTick(m, price)
    /\ arrivals' = Append(arrivals, [market |-> m, tick |-> Tick(price, now)])
    /\ UNCHANGED adds

StoreNext ==
    \/ \E d \in TimeSteps : Advance(d, StoreHorizon)
    \/ \E m \in Markets, price \in Prices : LoggedAddTick(m, price)

SpecStore == StoreInit /\ [][StoreNext]_vars

\* the ticks handed to AddTick for one instrument, in arrival order
Added(m) == SelectSeq(arrivals, LAMBDA a : a.market = m)

\* C10: after any sequence of AddTick calls the buffer of each instrument holds
\* at most maxTicks ticks, namely the last min(k, maxTicks) of the k ticks added
\* for it, in arrival order, and GetLatestPrice is the price of the last tick
\* added (0 while there is none).
C10_BufferKeepsMostRecent ==
    \A m \in Markets :
        LET mine == Added(m)
            k == Len(mine)
            n == Min(k, maxTicks)
            buf == GetAllTicks(markets, m)
        IN  /\ Len(buf) <= maxTicks
            /\ Len(buf) = n
            /\ \A i \in 1..n : buf[i] = mine[k - n + i].tick
            /\ GetLatestPrice(markets, m) = IF k = 0 THEN 0 ELSE mine[k].tick.Price

\* a buffer that has dropped its oldest tick and keeps more than one
C10_Witness ==
    \E m \in Markets :
        /\ maxTicks >= 2
        /\ Len(Added(m)) > maxTicks
        /\ Len(markets[m].Ticks) = maxTicks
        /\ markets[m].Ticks[1] # Added(m)[1].tick
        /\ markets[m].Ticks[1].Price # Last(markets[m].Ticks).Price

-----------------------------------------------------------------------------
(* Functions on their own: the input is drawn at the start, one step       *)
(* applies the function.  The rest of the system is at rest.               *)

system == <<now, maxTicks, markets, pending, results, stats, cache, requestCounter,
            lastCounterReset, nextId, task, ret, adds, arrivals, acceptLog, pall,
            counterMu, calls, window>>

AtRest ==
    /\ now = StartTime
    /\ maxTicks = 500
    /\ markets = [m \in Markets |-> NoMarketData]
    /\ pending = << >>
    /\ results = [m \in Markets |-> <<>>]
    /\ stats = [m \in Markets |-> NoStats]
    /\ cache = [k \in Markets \X Durations |-> NoCached]
    /\ requestCounter = [m \in Markets |-> 0]
    /\ lastCounterReset = StartTime
    /\ nextId = 1
    /\ task = [i \in Ids |-> NoTask]
    /\ ret = NoReturn
    /\ adds = 0
    /\ arrivals = <<>>
    /\ acceptLog = [m \in Markets |-> <<>>]
    /\ pall = NoPredictAll
    /\ NoCalls

\* all sequences over S of length at most n
SeqUpTo(S, n) == UNION {[1..k -> S] : k \in 0..n}

\* the signals a generator may emit
SignalAlphabet ==
    {Signal("Momentum", dir, conf, weight) :
        dir \in {"UP", "DOWN", "NONE"}, conf \in {5000, 6000, 9300}, weight \in {30, 55}}

\* the base prediction GeneratePrediction hands to the consensus
BasePrediction ==
    [EmptyPrediction EXCEPT !.Market = VolMarket, !.Direction = "NONE", !.Duration = 30,
                            !.Timestamp = StartTime, !.DataPoints = 30, !.CurrentPrice = 100]

ConsensusInit ==
    /\ AtRest
    /\ arg \in {[fn |-> "consensus", signals |-> sg, marketType |-> mt] :
                   sg \in SeqUpTo(SignalAlphabet, MaxSignals),
                   mt \in {"volatility", "forex"}}
    /\ out = NoOut

\* CombinedStrategy.marketAwareConsensus(signals, basePrediction, marketType)
ApplyConsensus ==
    /\ arg.fn = "consensus"
    /\ out = NoOut
    /\ out' = [fn |-> "consensus",
               pred |-> marketAwareConsensus(arg.signals, BasePrediction, arg.marketType)]
    /\ UNCHANGED <<system, arg>>

ConsensusNext == ApplyConsensus

SpecConsensus == ConsensusInit /\ [][ConsensusNext]_vars

\* C12: the consensus of a signal list without an UP and without a DOWN signal
\* is never UP or DOWN: it is the neutral prediction with confidence 0.
C12_NoVotesNoDirection ==
    (out.fn = "consensus"
        /\ \A i \in 1..Len(arg.signals) : arg.signals[i].Direction \notin {"UP", "DOWN"}) =>
            (out.pred.Direction = "NONE" /\ out.pred.Confidence = 0)

\* the consensus of several signals, all of them NONE
C12_Witness ==
    /\ out.fn = "consensus"
    /\ Len(arg.signals) >= 2
    /\ \A i \in 1..Len(arg.signals) : arg.signals[i].Direction = "NONE"
    /\ out.pred.Direction = "NONE"
    /\ out.pred.Reason = "no_directional_signals"

\* the indices of the signals of a direction
Side(signals, dir) == {i \in 1..Len(signals) : signals[i].Direction = dir}

RECURSIVE SumOfSet(_, _)
\* the sum of f over the index set I
SumOfSet(f, I) ==
    IF I = {} THEN 0
    ELSE LET i == CHOOSE x \in I : TRUE IN f[i] + SumOfSet(f, I \ {i})

-----------------------------------------------------------------------------
(* The consensus next to the indicator snapshot of the base prediction      *)

\* an indicator snapshot: |EMA9 - EMA21| and Volatility in the price unit of
\* BBMiddle, RSI in points, Momentum in thousandths
Snapshot(emaSpread, rsi, momentum, volatility) ==
    [EMASpread |-> emaSpread, BBMiddle |-> 10000, RSI |-> rsi, Momentum |-> momentum,
     Volatility |-> volatility]

Snapshots ==
    {Snapshot(e, r, mo, v) : e \in {10, 20}, r \in {25, 50, 75}, mo \in {-5, 0, 5},
                             v \in {100, 280, 400}}

\* the filters of marketSpecificFilters (combined.go) on EMA separation, RSI
\* zone, momentum and volatility: the name of the first one that fails, or ""
QualityFilters(inds, direction, marketType) ==
    IF 10000 * inds.EMASpread < inds.BBMiddle * 15 THEN "ema"
    ELSE IF marketType = "forex"
    THEN IF direction = "UP" /\ inds.RSI > 72 THEN "rsi"
         ELSE IF direction = "DOWN" /\ inds.RSI < 28 THEN "rsi"
         ELSE IF direction = "UP" /\ inds.Momentum < -3 THEN "momentum"
         ELSE IF direction = "DOWN" /\ inds.Momentum > 3 THEN "momentum"
         ELSE IF 1000 * inds.Volatility > inds.BBMiddle * 25 THEN "volatility"
         ELSE ""
    ELSE IF direction = "UP" /\ inds.RSI > 70 THEN "rsi"
         ELSE IF direction = "DOWN" /\ inds.RSI < 30 THEN "rsi"
         ELSE IF direction = "UP" /\ inds.Momentum < -2 THEN "momentum"
         ELSE IF direction = "DOWN" /\ inds.Momentum > 2 THEN "momentum"
         ELSE IF 1000 * inds.Volatility > inds.BBMiddle * 30 THEN "volatility"
         ELSE ""

FilterInit ==
    /\ AtRest
    /\ arg \in {[fn |-> "filtered_consensus", signals |-> sg, marketType |-> mt, inds |-> in] :
                   sg \in SeqUpTo({Signal("RSI_Divergence", "UP", 6000, 55),
                                   Signal("Advanced_Pattern", "DOWN", 9300, 45),
                                   Signal("Momentum", "NONE", 6000, 30)}, MaxFilterSignals),
                   mt \in {"volatility", "forex"},
                   in \in Snapshots}
    /\ out = NoOut

\* CombinedStrategy.marketAwareConsensus(signals, basePrediction, marketType),
\* basePrediction.Indicators being arg.inds
ApplyFilteredConsensus ==
    /\ arg.fn = "filtered_consensus"
    /\ out = NoOut
    /\ out' = [fn |-> "filtered_consensus",
               pred |-> marketAwareConsensus(arg.signals, BasePrediction, arg.marketType)]
    /\ UNCHANGED <<system, arg>>

FilterNext == ApplyFilteredConsensus

SpecFilters == FilterInit /\ [][FilterNext]_vars

\* C24: every direction the consensus accepts has passed the quality filters
\* on its indicator snapshot (EMA separation, RSI zone, momentum, volatility
\* ceiling); a consensus that fails one is returned neutral.
C24_AcceptedPassedFilters ==
    out.fn = "filtered_consensus" =>
        (out.pred.Direction \in {"UP", "DOWN"}
            => QualityFilters(arg.inds, out.pred.Direction, arg.marketType) = "")

-----------------------------------------------------------------------------
(* UpdateStats on its own *)

\* the i-th TradeResult of a history, won or lost
HistoryResult(i, won) ==
    [NoResult EXCEPT !.PredictionID = i, !.Market = VolMarket, !.Direction = "UP",
                     !.EntryPrice = 100, !.ExitPrice = IF won THEN 101 ELSE 100,
                     !.Duration = 30, !.Confidence = 6000, !.Won = won,
                     !.ProfitLoss = IF won THEN WinProfit ELSE LossProfit,
                     !.PriceChange = IF won THEN 1 ELSE 0]

\* the histories tried: every win/loss pattern up to MaxShortHistory, and up
\* to MaxHistory those made of three runs (wins-losses-wins or losses-wins-losses)
Histories ==
    {[i \in 1..Len(w) |-> HistoryResult(i, w[i])] : w \in SeqUpTo(BOOLEAN, MaxShortHistory)}
    \cup
    {[i \in 1..n |-> HistoryResult(i, IF inner THEN (a < i /\ i <= b) ELSE (i <= a \/ i > b))] :
        n \in (MaxShortHistory + 1)..MaxHistory, a \in 0..MaxHistory, b \in 0..MaxHistory,
        inner \in BOOLEAN}

StatsInit ==
    /\ AtRest
    /\ arg \in {[fn |-> "stats", results |-> h] : h \in Histories}
    /\ out = NoOut

\* ResultTracker.UpdateStats(market) on the history arg.results: the Stats it
\* stores, none for an empty history
ApplyUpdateStats ==
    /\ arg.fn = "stats"
    /\ out = NoOut
    /\ out' = [fn |-> "stats",
               stats |-> IF Len(arg.results) = 0 THEN NoStats ELSE ComputeStats(arg.results)]
    /\ UNCHANGED <<system, arg>>

StatsNext == ApplyUpdateStats

SpecStats == StatsInit /\ [][StatsNext]_vars

\* the largest element of a non-empty set of numbers
SetMax(S) == CHOOSE x \in S : \A y \in S : y <= x

\* the length of the run of consecutive wins that ends at position i of h
WinRunEndingAt(h, i) == SetMax({k \in 0..i : \A j \in (i - k + 1)..i : h[j].Won})

\* C15: for a history of n >= 1 results UpdateStats yields TotalTrades = n,
\* Wins = the number of won results, Losses = n - Wins, WinRate = 100 * Wins / n
\* (in hundredths of a percent, truncated), CurrentStreak = the run of wins
\* ending at the last result, BestStreak = the longest run of wins anywhere,
\* TotalProfitLoss = 8.5 per win - 10 per loss, RecentTrades = the last
\* min(20, n) results in order.
C15_StatsFromHistory ==
    (out.fn = "stats" /\ Len(arg.results) >= 1) =>
        LET h == arg.results
            n == Len(h)
            wins == Cardinality({i \in 1..n : h[i].Won})
            st == out.stats
        IN  /\ st.exists
            /\ st.TotalTrades = n
            /\ st.Wins = wins
            /\ st.Losses = n - wins
            /\ st.WinRate = (10000 * wins) \div n
            /\ st.TotalProfitLoss = 85 * wins - 100 * (n - wins)
            /\ st.CurrentStreak = WinRunEndingAt(h, n)
            /\ st.BestStreak = SetMax({WinRunEndingAt(h, i) : i \in 1..n})
            /\ Len(st.RecentTrades) = (IF n < 20 THEN n ELSE 20)
            /\ \A i \in 1..Len(st.RecentTrades) :
                  st.RecentTrades[i] = h[n - Len(st.RecentTrades) + i]

\* C29: every Stats record UpdateStats stores satisfies
\* 0 <= CurrentStreak <= BestStreak <= Wins <= TotalTrades and
\* Wins + Losses = TotalTrades, so the quality score never takes its
\* losing-streak case (CurrentStreak < -2).
C29_StreakBounds ==
    (out.fn = "stats" /\ out.stats.exists) =>
        LET st == out.stats
        IN  /\ 0 <= st.CurrentStreak
            /\ st.CurrentStreak <= st.BestStreak
            /\ st.BestStreak <= st.Wins
            /\ st.Wins <= st.TotalTrades
            /\ st.Wins + st.Losses = st.TotalTrades
            /\ StreakCase(st) \in {"winning", "neutral"}

\* a history that closes with three losses or more: CurrentStreak is 0 and the
\* score takes its neutral case
C29_Witness ==
    /\ out.fn = "stats"
    /\ Len(arg.results) >= 4
    /\ \E i \in 1..(Len(arg.results) - 3) : arg.results[i].Won
    /\ \A i \in (Len(arg.results) - 2)..Len(arg.results) : ~arg.results[i].Won
    /\ out.stats.CurrentStreak = 0
    /\ out.stats.BestStreak > 0
    /\ StreakCase(out.stats) = "neutral"

\* a history longer than the recent window, ending in a run of wins shorter
\* than its best run, after a loss
C15_Witness ==
    /\ out.fn = "stats"
    /\ Len(arg.results) > 20
    /\ Len(out.stats.RecentTrades) = 20
    /\ out.stats.CurrentStreak >= 1
    /\ out.stats.BestStreak > out.stats.CurrentStreak
    /\ out.stats.Losses >= 1

-----------------------------------------------------------------------------
(* PredictAll: the volatility instrument is warm, the forex instrument has  *)
(* no tick yet                                                             *)

AllInit ==
    /\ now = StartTime
    /\ maxTicks = 31
    /\ markets = [m \in Markets |->
                    IF m = VolMarket
                    THEN [exists |-> TRUE, Ticks |-> WarmVolTicks,
                          LastUpdate |-> Last(WarmVolTicks).Timestamp, IsActive |-> TRUE]
                    ELSE NoMarketData]
    /\ pending = << >>
    /\ results = [m \in Markets |-> <<>>]
    /\ stats = [m \in Markets |-> NoStats]
    /\ cache = [k \in Markets \X Durations |-> NoCached]
    /\ requestCounter = [m \in Markets |-> 0]
    /\ lastCounterReset = 0
    /\ nextId = 1
    /\ task = [i \in Ids |-> NoTask]
    /\ ret = NoReturn
    /\ adds = 0
    /\ arrivals = <<>>
    /\ acceptLog = [m \in Markets |-> <<>>]
    /\ arg = NoArg
    /\ out = NoOut
    /\ pall = NoPredictAll
    /\ NoCalls

\* Engine.PredictAll(duration): read the active instruments
PredictAllStart(d) ==
    /\ pall.pc # "run"
    /\ pall' = [pc |-> "run", duration |-> d, active |-> GetActiveMarkets(markets),
                todo |-> GetActiveMarkets(markets), predictions |-> << >>]
    /\ UNCHANGED <<now, maxTicks, markets, pending, results, stats, cache, requestCounter,
                   lastCounterReset, nextId, task, ret, adds, arrivals, acceptLog, arg, out,
                   counterMu, calls, window>>

\* Engine.PredictAll: one iteration of the loop, Predict for the next
\* instrument; its Prediction enters the map unless Predict returned an error
PredictAllStep(inputs, idLimit) ==
    /\ pall.pc = "run"
    /\ \E m \in pall.todo :
          /\ Predict(m, pall.duration, inputs, idLimit)
          /\ pall' = [pall EXCEPT !.todo = @ \ {m},
                                  !.predictions = IF ret'.err = "none"
                                                  THEN (m :> ret'.pred) @@ @
                                                  ELSE @]
    /\ UNCHANGED <<acceptLog, arg>>

\* Engine.PredictAll: the loop is over, the map is returned
PredictAllReturn ==
    /\ pall.pc = "run"
    /\ pall.todo = {}
    /\ pall' = [pall EXCEPT !.pc = "done"]
    /\ UNCHANGED <<now, maxTicks, markets, pending, results, stats, cache, requestCounter,
                   lastCounterReset, nextId, task, ret, adds, arrivals, acceptLog, arg, out,
                   counterMu, calls, window>>

AllNext ==
    \/ \E d \in TimeSteps : Advance(d, EngineHorizon)
    \/ \E price \in {100} : FeedTick(FxMarket, price, 1)
    \/ \E m \in Markets : Predict(m, 30, StrategyInputs, MaxEngineIds)
                             /\ UNCHANGED <<acceptLog, arg, pall>>
    \/ \E d \in {30} : PredictAllStart(d)
    \/ PredictAllStep(StrategyInputs, MaxEngineIds)
    \/ PredictAllReturn

SpecAll == AllInit /\ [][AllNext]_vars

\* C16: the map PredictAll returns has a Prediction for every instrument that
\* was active (had a tick) when it was called.
C16_EveryActiveInstrument ==
    pall.pc = "done" => DOMAIN pall.predictions = pall.active

\* What PredictAll does return: it goes through the instruments that have a
\* tick when it is called, once each; the map holds, under the instrument's
\* name, the Prediction of every one of them whose Predict call the rate
\* limiter did not refuse, for the horizon asked, and nothing for a refused or
\* an inactive instrument.
PredictAllOmitsRefused ==
    /\ [](/\ DOMAIN pall.predictions \subseteq pall.active \ pall.todo
          /\ \A m \in DOMAIN pall.predictions :
                /\ pall.predictions[m].Market = m
                /\ pall.predictions[m].Duration = pall.duration
          /\ pall.pc = "done" => pall.todo = {})
    /\ [][/\ (pall.pc # "run" /\ pall'.pc = "run") =>
                /\ pall'.active = {m \in Markets : Len(markets[m].Ticks) > 0}
                /\ pall'.todo = pall'.active
                /\ pall'.predictions = << >>
          /\ \A m \in Markets :
                (pall.pc = "run" /\ pall'.pc = "run" /\ m \in pall.todo /\ m \notin pall'.todo) =>
                    /\ pall'.todo = pall.todo \ {m}
                    /\ pall'.active = pall.active
                    /\ IF AtCap(m)
                       THEN pall'.predictions = pall.predictions
                       ELSE /\ DOMAIN pall'.predictions = DOMAIN pall.predictions \cup {m}
                            /\ pall'.predictions[m] = ret'.pred
                            /\ \A o \in DOMAIN pall.predictions :
                                  pall'.predictions[o] = pall.predictions[o]
          /\ (pall.pc = "run" /\ pall'.pc = "done") =>
                (pall.todo = {} /\ pall'.predictions = pall.predictions
                                /\ pall'.active = pall.active)]_vars

\* a returned map with the Prediction of one active instrument and none for
\* the other, which was refused
PredictAllOmitsRefusedCase ==
    /\ pall.pc = "done"
    /\ pall.active = Markets
    /\ DOMAIN pall.predictions = {FxMarket}
    /\ requestCounter[VolMarket] = maxPerMinute

-----------------------------------------------------------------------------
(* The candle functions on their own *)

\* ticks of three prices at three instants; arrival order need not be time order
TickAlphabet == {Tick(price, ts) : price \in {100, 101, 102}, ts \in {1, 4, 6}}

\* a candle list of n candles of which the first z have no tick volume
CandleList(n, z) ==
    [i \in 1..n |-> [Open |-> 100, High |-> 100, Low |-> 100, Close |-> 100,
                     Volume |-> IF i <= z THEN 0 ELSE 1, Timestamp |-> 5 * i]]

CandlesInit ==
    /\ AtRest
    /\ arg \in {[fn |-> "candles", ticks |-> t, period |-> p] :
                   t \in SeqUpTo(TickAlphabet, MaxTickRun), p \in {5, 10}}
               \cup
               {[fn |-> "validate", candles |-> CandleList(n, z), minRequired |-> r] :
                   n \in 0..MaxCandleCount, z \in 0..MaxCandleCount, r \in 1..MaxMinRequired}
    /\ out = NoOut

\* candles.TicksToCandles(ticks, period)
ApplyTicksToCandles ==
    /\ arg.fn = "candles"
    /\ out = NoOut
    /\ out' = [fn |-> "candles", candles |-> TicksToCandles(arg.ticks, arg.period)]
    /\ UNCHANGED <<system, arg>>

\* candles.ValidateCandles(candles, minRequired)
ApplyValidateCandles ==
    /\ arg.fn = "validate"
    /\ out = NoOut
    /\ out' = [fn |-> "validate", result |-> ValidateCandles(arg.candles, arg.minRequired)]
    /\ UNCHANGED <<system, arg>>

CandlesNext == ApplyTicksToCandles \/ ApplyValidateCandles

SpecCandles == CandlesInit /\ [][CandlesNext]_vars

\* the smallest element of a non-empty set of numbers
SetMin(S) == CHOOSE x \in S : \A y \in S : x <= y

RECURSIVE VolumeSum(_)
VolumeSum(candles) ==
    IF Len(candles) = 0 THEN 0
    ELSE candles[Len(candles)].Volume + VolumeSum(SubSeq(candles, 1, Len(candles) - 1))

\* C17: TicksToCandles yields one candle for each maximal run of consecutive
\* ticks in the same period bucket, in order: Open is the price of the run's
\* first tick, Close of its last, High and Low the largest and smallest price
\* of the run, Volume the length of the run and Timestamp the bucket start.
\* Ticks all in one bucket give one candle whose Volume is their number, and
\* the Volumes add up to the number of ticks.
C17_CandlePerRun ==
    out.fn = "candles" =>
        LET t == arg.ticks
            n == Len(t)
            c == out.candles
            bucket(i) == t[i].Timestamp - (t[i].Timestamp % arg.period)
            starts == {i \in 1..n : i = 1 \/ bucket(i) # bucket(i - 1)}
            startOf(j) == CHOOSE i \in starts : Cardinality({x \in starts : x <= i}) = j
            endOf(j) == IF j = Cardinality(starts) THEN n ELSE startOf(j + 1) - 1
        IN  /\ Len(c) = Cardinality(starts)
            /\ \A j \in 1..Len(c) :
                  LET run == startOf(j)..endOf(j)
                  IN  /\ c[j].Open = t[startOf(j)].Price
                      /\ c[j].Close = t[endOf(j)].Price
                      /\ c[j].High = SetMax({t[i].Price : i \in run})
                      /\ c[j].Low = SetMin({t[i].Price : i \in run})
                      /\ c[j].Volume = endOf(j) - startOf(j) + 1
                      /\ c[j].Timestamp = bucket(startOf(j))
            /\ (n >= 1 /\ \A i \in 1..n : bucket(i) = bucket(1)) =>
                  (Len(c) = 1 /\ c[1].Volume = n)
            /\ VolumeSum(c) = n

\* several ticks in one bucket, then the next bucket: the first candle has
\* four distinct roles for its prices
C17_Witness ==
    /\ out.fn = "candles"
    /\ Len(out.candles) = 2
    /\ out.candles[1].Volume = 3
    /\ out.candles[1].High > out.candles[1].Open
    /\ out.candles[1].Low < out.candles[1].Close
    /\ out.candles[1].Close # out.candles[1].Open
    /\ out.candles[2].Timestamp > out.candles[1].Timestamp

\* C18: ValidateCandles fails with the insufficient-data reason when the
\* candle count is below 80% of minRequired, otherwise with the stale-data
\* reason when more than half of the candles have zero volume, and succeeds
\* otherwise.
C18_EightyPercentRule ==
    out.fn = "validate" =>
        LET n == Len(arg.candles)
            zero == Cardinality({i \in 1..n : arg.candles[i].Volume = 0})
        IN  IF 10 * n < 8 * arg.minRequired
            THEN out.result = [valid |-> FALSE, reason |-> "insufficient_candles"]
            ELSE IF 2 * zero > n
            THEN out.result = [valid |-> FALSE, reason |-> "stale_data"]
            ELSE out.result = [valid |-> TRUE, reason |-> "valid"]

-----------------------------------------------------------------------------
(* indicators: CalculateRSI (internal/indicators/indicators.go), on its own *)

\* a faulty data floor of a whole period
DataFloorMutantFullPeriod(period) == period

\* CalculateRSI: the number of ticks below which it answers 50 at once
DataFloor(period) == period \div 2

RECURSIVE RsiLoop(_, _, _)
\* the loop of CalculateRSI from the 0-based index i on: acc = [gains, losses]
RsiLoop(ticks, i, acc) ==
    IF i >= Len(ticks) THEN acc
    ELSE LET change == ticks[i + 1].Price - ticks[i].Price
         IN  RsiLoop(ticks, i + 1,
                     IF change > 0
                     THEN [acc EXCEPT !.gains = @ + change]
                     ELSE [acc EXCEPT !.losses = @ + Abs(change)])

\* indicators.CalculateRSI(ticks, period), in hundredths, truncated.  avgGain
\* and avgLoss share the divisor actualPeriod, so rs = gains / losses and
\* 100 - 100 / (1 + rs) = 100 - 100 * losses / (gains + losses).
CalculateRSI(ticks, period) ==
    IF Len(ticks) < DataFloor(period) THEN 5000
    ELSE LET available == IF Len(ticks) - 1 < period THEN Len(ticks) - 1 ELSE period
             actualPeriod == IF available < 5 THEN 5 ELSE available
             startIdx == IF Len(ticks) - actualPeriod < 1 THEN 1
                         ELSE Len(ticks) - actualPeriod
             sums == RsiLoop(ticks, startIdx, [gains |-> 0, losses |-> 0])
         IN  IF sums.losses = 0
             THEN IF sums.gains > 0 THEN 10000 ELSE 5000
             ELSE 10000 - ((10000 * sums.losses) \div (sums.gains + sums.losses))

RsiInit ==
    /\ AtRest
    /\ arg \in {[fn |-> "rsi", ticks |-> [i \in 1..Len(ps) |-> Tick(ps[i], i)], period |-> p] :
                   ps \in SeqUpTo({100, 101, 103}, MaxRsiTicks), p \in {2, 4, 8, 14}}
    /\ out = NoOut

\* indicators.CalculateRSI(ticks, period)
ApplyCalculateRSI ==
    /\ arg.fn = "rsi"
    /\ out = NoOut
    /\ out' = [fn |-> "rsi", rsi |-> CalculateRSI(arg.ticks, arg.period)]
    /\ UNCHANGED <<system, arg>>

RsiNext == ApplyCalculateRSI

SpecRsi == RsiInit /\ [][RsiNext]_vars

\* the 1-based positions j whose change t[j] - t[j-1] CalculateRSI looks at:
\* the last max(5, min(period, n - 1)) changes, as far as there are any
RsiWindow(n, period) ==
    LET wanted == IF n - 1 < period THEN n - 1 ELSE period
        used == IF wanted < 5 THEN 5 ELSE wanted
    IN  {j \in 2..n : j > n - used}

\* C20 as stated: the RSI is within [0, 100], 50 for fewer than 5 ticks and
\* below the data floor, 100 without losses and with gains, 50 without both
C20_FiftyBelowFiveSamples ==
    out.fn = "rsi" =>
        LET t == arg.ticks
            n == Len(t)
            w == RsiWindow(n, arg.period)
        IN  /\ 0 <= out.rsi /\ out.rsi <= 10000
            /\ (n < 5 \/ 2 * n < arg.period) => out.rsi = 5000
            /\ (n >= 5 /\ 2 * n >= arg.period) =>
                  /\ ((\A j \in w : t[j].Price >= t[j - 1].Price)
                         /\ (\E j \in w : t[j].Price > t[j - 1].Price)) => out.rsi = 10000
                  /\ (\A j \in w : t[j].Price = t[j - 1].Price) => out.rsi = 5000

\* C20: the RSI is within [0, 100]; it is 50 for fewer ticks than half the
\* period (rounded down); at or above that floor, whatever the number of
\* ticks, it is 100 when the window has no falling change and a rising one, 50
\* when the window has no change at all (so for fewer than 2 ticks), and 0
\* when it has a falling change and no rising one.
C20_RsiRangeAndFloor ==
    out.fn = "rsi" =>
        LET t == arg.ticks
            n == Len(t)
            w == RsiWindow(n, arg.period)
        IN  /\ 0 <= out.rsi /\ out.rsi <= 10000
            /\ n < arg.period \div 2 => out.rsi = 5000
            /\ n >= arg.period \div 2 =>
                  /\ ((\A j \in w : t[j].Price >= t[j - 1].Price)
                         /\ (\E j \in w : t[j].Price > t[j - 1].Price)) => out.rsi = 10000
                  /\ (\A j \in w : t[j].Price = t[j - 1].Price) => out.rsi = 5000
                  /\ ((\A j \in w : t[j].Price <= t[j - 1].Price)
                         /\ (\E j \in w : t[j].Price < t[j - 1].Price)) => out.rsi = 0
                  /\ n < 2 => out.rsi = 5000

\* three rising ticks at period 4: above the floor, fewer than 5 samples, RSI 100
C20_Witness ==
    /\ out.fn = "rsi"
    /\ Len(arg.ticks) = 3
    /\ arg.period = 4
    /\ arg.ticks[1].Price < arg.ticks[2].Price
    /\ arg.ticks[2].Price < arg.ticks[3].Price
    /\ out.rsi = 10000

-----------------------------------------------------------------------------
(* Engine.Predict with the strategy inputs of each computed request on record *)

\* what the generators and the volatility test may answer, each combination
StageInputs == {[volOK |-> v, signals |-> sg] : v \in BOOLEAN, sg \in SignalChoices}

\* Engine.Predict(m, d); arg keeps the strategy inputs when the call reached
\* strategy.GeneratePrediction
StagedPredict(m, d) ==
    \E in \in StageInputs :
        /\ Predict(m, d, {in}, MaxStageIds)
        /\ arg' = IF nextId' # nextId
                  THEN [fn |-> "predict", volOK |-> in.volOK, signals |-> in.signals]
                  ELSE NoArg
        /\ UNCHANGED <<acceptLog, pall>>

StageNext ==
    \/ \E d \in TimeSteps : Advance(d, StageHorizon)
    \/ \E price \in {100} : FeedTick(FxMarket, price, 1)
    \/ \E m \in Markets : StagedPredict(m, 30)

SpecStages == Init /\ [][StageNext]_vars

\* the place of an outcome in the order insufficient data, unfavorable
\* conditions, no signals, weak consensus, below threshold, accepted
StageOf(pred) ==
    CASE pred.Reason \in {"collecting_data", "data_quality"} -> 1
      [] pred.Reason = "unfavorable_conditions" -> 2
      [] pred.Reason \in {"no_signals", "unknown_market_type"} -> 3
      [] pred.Reason \in {"no_directional_signals", "conflicting_signals"} -> 4
      [] pred.Reason = "low_confidence" -> 5
      [] pred.Reason = "accepted" -> 6
      [] OTHER -> 0

\* the checks a request with these ticks and strategy inputs fails, by place
FailedChecks(m, d, ticks, t, volOK, signals) ==
    LET data == DataStage(m, d, ticks, t)
        up == Cardinality({i \in 1..Len(signals) : signals[i].Direction = "UP"})
        down == Cardinality({i \in 1..Len(signals) : signals[i].Direction = "DOWN"})
        winner == IF up > down THEN "UP" ELSE "DOWN"
        weight == TotalWeight(signals, winner)
    IN  (IF ~data.ok \/ Len(data.candleTicks) < getMinimumRequired(d, getMarketType(m))
         THEN {1} ELSE {})
        \cup (IF ~volOK \/ (data.ok /\ PricesFrozen(data.candleTicks)) THEN {2} ELSE {})
        \cup (IF Len(signals) = 0 THEN {3} ELSE {})
        \cup (IF up = down \/ 100 * (IF up > down THEN up ELSE down) < 40 * (up + down)
              THEN {4} ELSE {})
        \cup (IF weight > 0 /\ WeightedConfidence(signals, winner) < 5200 * weight
              THEN {5} ELSE {})

\* C19: a Predict call that passes the rate limit and misses the cache returns
\* one outcome, that of the first check it fails in the order insufficient
\* data, unfavorable conditions, no signals, weak consensus, below threshold,
\* and "accepted" with a direction when it fails none; it runs the strategy at
\* most once (one identifier, one cache entry), and not at all when the
\* engine's data checks fail.
C19_StageOrder ==
    [][(PredictStep /\ ret'.err = "none"
          /\ ~CacheHit(cache[<<ret'.market, ret'.duration>>], now,
                       getCacheTimeout(ret'.duration)))
        => LET m == ret'.market
               d == ret'.duration
               ticks == GetAllTicks(markets, m)
               computed == nextId' # nextId
               failed == IF computed
                         THEN FailedChecks(m, d, ticks, now, arg'.volOK, arg'.signals)
                         ELSE {1}
               stage == StageOf(ret'.pred)
           IN  /\ stage \in 1..6
               /\ \A k \in failed : stage <= k
               /\ stage = 6 \/ stage \in failed
               /\ (stage = 6) = (ret'.pred.Direction \in {"UP", "DOWN"})
               /\ (stage = 1) = (ret'.pred.ID = 0)
               /\ computed = DataStage(m, d, ticks, now).ok
               /\ computed => /\ nextId' = nextId + 1
                              /\ ret'.pred.ID = NewId(nextId)
                              /\ cache'[<<m, d>>].Prediction = ret'.pred
                              /\ \A k \in DOMAIN cache : k # <<m, d>> => cache'[k] = cache[k]
               /\ ~computed => /\ cache' = cache
                               /\ pending' = pending
                               /\ task' = task]_vars

\* a request that would fail the market-condition test and the signal test and
\* reports the earlier of the two
C19_Witness ==
    /\ ret.err = "none"
    /\ arg.fn = "predict"
    /\ ~arg.volOK
    /\ Len(arg.signals) = 0
    /\ ret.pred.Reason = "unfavorable_conditions"
    /\ ret.pred.ID # 0

-----------------------------------------------------------------------------
(* The running system with its scheduling: the clock keeps running and every *)
(* settlement goroutine keeps being scheduled.  Requests come early enough  *)
(* for their horizon to end inside the run.                                 *)

LiveNext ==
    \/ \E d \in TimeSteps : Advance(d, LiveHorizon)
    \/ \E price \in Prices : FeedTick(VolMarket, price, MaxAdds)
    \/ \E d \in {30} : /\ now + d <= StartTime + LiveHorizon
                       /\ Predict(VolMarket, d, DirectionalInputs, MaxIds)
                       /\ UNCHANGED <<acceptLog, arg, pall>>
    \/ \E id \in Ids : SettleWake(id)
    \/ \E id \in Ids : SettleStore(id)
    \/ \E id \in Ids : SettleStats(id)

\* time.Sleep returns and the Go scheduler runs every runnable goroutine
SpecLive ==
    /\ Init
    /\ [][LiveNext]_vars
    /\ WF_vars(\E d \in TimeSteps : Advance(d, LiveHorizon))
    /\ \A id \in Ids : WF_vars(SettleWake(id))
    /\ \A id \in Ids : WF_vars(SettleStore(id))
    /\ \A id \in Ids : WF_vars(SettleStats(id))

\* C21: every pending prediction is eventually removed from the pending table,
\* and from then on it has a TradeResult or was dropped without one.
C21_PendingEventuallyRemoved ==
    \A id \in Ids :
        (id \in DOMAIN pending)
            ~> (id \notin DOMAIN pending /\ task[id].pc \in {"stats", "done"})

\* a prediction dropped at settlement for a missing price: no pending entry, no result
C21_Witness ==
    \E id \in Ids :
        /\ task[id].pc = "done"
        /\ id \notin DOMAIN pending
        /\ ResultCount(id) = 0

-----------------------------------------------------------------------------
(* Engine.Predict called from several goroutines (the HTTP handlers): each  *)
(* call is a sequence of steps, and a step is what the code does without    *)
(* giving up a lock it holds                                                *)

\* a window opened 55 s ago in which one request of the volatility instrument
\* was accepted
ConcInit ==
    /\ now = StartTime
    /\ maxTicks = 31
    /\ markets = [m \in Markets |->
                    [exists |-> TRUE,
                     Ticks |-> IF m = VolMarket THEN WarmVolTicks ELSE WarmFxTicks,
                     LastUpdate |-> Last(IF m = VolMarket THEN WarmVolTicks ELSE WarmFxTicks).Timestamp,
                     IsActive |-> TRUE]]
    /\ pending = << >>
    /\ results = [m \in Markets |-> <<>>]
    /\ stats = [m \in Markets |-> NoStats]
    /\ cache = [k \in Markets \X Durations |-> NoCached]
    /\ requestCounter = [m \in Markets |-> IF m = VolMarket THEN 1 ELSE 0]
    /\ lastCounterReset = StartTime - 55
    /\ nextId = 1
    /\ task = [i \in Ids |-> NoTask]
    /\ ret = NoReturn
    /\ adds = 0
    /\ arrivals = <<>>
    /\ acceptLog = [m \in Markets |-> <<>>]
    /\ arg = NoArg
    /\ out = NoOut
    /\ pall = NoPredictAll
    /\ counterMu = 0
    /\ calls = [t \in Callers |-> NoCall]
    /\ window = [m \in Markets |-> IF m = VolMarket THEN 1 ELSE 0]

\* what a step of a call leaves alone besides the fields it names
CallFrame == <<now, maxTicks, markets, results, stats, adds, arrivals, acceptLog, arg, out, pall>>

\* a goroutine enters Engine.Predict(m, d)
CallPredict(t, m, d) ==
    /\ calls[t].pc = "idle"
    /\ calls' = [calls EXCEPT ![t] = [NoCall EXCEPT !.pc = "lock", !.market = m, !.duration = d]]
    /\ UNCHANGED <<pending, cache, requestCounter, lastCounterReset, nextId, task, ret,
                   counterMu, window>>
    /\ UNCHANGED CallFrame

\* a faulty checkRateLimit that does not wait for counterMu
RateLockMutantNoWait(t) ==
    /\ calls[t].pc = "lock"
    /\ counterMu' = t
    /\ calls' = [calls EXCEPT ![t].pc = "read"]
    /\ UNCHANGED <<pending, cache, requestCounter, lastCounterReset, nextId, task, ret, window>>
    /\ UNCHANGED CallFrame

\* checkRateLimit: e.counterMu.Lock()
RateLock(t) ==
    /\ calls[t].pc = "lock"
    /\ counterMu = 0
    /\ counterMu' = t
    /\ calls' = [calls EXCEPT ![t].pc = "read"]
    /\ UNCHANGED <<pending, cache, requestCounter, lastCounterReset, nextId, task, ret, window>>
    /\ UNCHANGED CallFrame

\* checkRateLimit: the reset of a window older than a minute, and
\* count := e.requestCounter[market]
RateRead(t) ==
    /\ calls[t].pc = "read"
    /\ LET reset == now - lastCounterReset > Minute
           counter1 == IF reset THEN [m \in Markets |-> 0] ELSE requestCounter
       IN  /\ requestCounter' = counter1
           /\ lastCounterReset' = IF reset THEN now ELSE lastCounterReset
           /\ window' = IF reset THEN [m \in Markets |-> 0] ELSE window
           /\ calls' = [calls EXCEPT ![t].pc = "decide",
                                     ![t].count = counter1[calls[t].market]]
    /\ UNCHANGED <<pending, cache, nextId, task, ret, counterMu>>
    /\ UNCHANGED CallFrame

\* checkRateLimit: refuse at the cap, otherwise e.requestCounter[market]++; the
\* deferred Unlock; Predict returns the error when refused
RateDecide(t) ==
    /\ calls[t].pc = "decide"
    /\ LET m == calls[t].market
       IN  IF calls[t].count >= maxPerMinute
           THEN /\ ret' = [market |-> m, duration |-> calls[t].duration,
                           err |-> "rate_limit", pred |-> EmptyPrediction]
                /\ calls' = [calls EXCEPT ![t] = NoCall]
                /\ UNCHANGED <<requestCounter, window>>
           ELSE /\ requestCounter' = [requestCounter EXCEPT ![m] = @ + 1]
                /\ window' = [window EXCEPT ![m] = @ + 1]
                /\ calls' = [calls EXCEPT ![t].pc = "cache"]
                /\ UNCHANGED ret
    /\ counterMu' = IF counterMu = t THEN 0 ELSE counterMu
    /\ UNCHANGED <<pending, cache, lastCounterReset, nextId, task>>
    /\ UNCHANGED CallFrame

\* Predict: getFromCache and the age test; a hit is returned
CacheLookup(t) ==
    /\ calls[t].pc = "cache"
    /\ LET m == calls[t].market
           d == calls[t].duration
       IN  IF CacheHit(cache[<<m, d>>], now, getCacheTimeout(d))
           THEN /\ ret' = [market |-> m, duration |-> d, err |-> "none",
                           pred |-> cache[<<m, d>>].Prediction]
                /\ calls' = [calls EXCEPT ![t] = NoCall]
           ELSE /\ calls' = [calls EXCEPT ![t].pc = "compute"]
                /\ UNCHANGED ret
    /\ UNCHANGED <<pending, cache, requestCounter, lastCounterReset, nextId, task,
                   counterMu, window>>
    /\ UNCHANGED CallFrame

\* Predict: the data checks, strategy.GeneratePrediction, the identifier and
\* the quality boost
Compute(t, inputs) ==
    /\ calls[t].pc = "compute"
    /\ LET m == calls[t].market
           d == calls[t].duration
           data == DataStage(m, d, GetAllTicks(markets, m), now)
       IN  IF ~data.ok
           THEN /\ ret' = [market |-> m, duration |-> d, err |-> "none", pred |-> data.pred]
                /\ calls' = [calls EXCEPT ![t] = NoCall]
                /\ UNCHANGED nextId
           ELSE /\ nextId <= MaxConcIds
                /\ \E in \in inputs :
                      calls' = [calls EXCEPT ![t].pc = "store",
                                             ![t].prediction =
                                                 StrategyStage(m, d, data, NewId(nextId),
                                                               in.volOK, in.signals)]
                /\ nextId' = nextId + 1
                /\ UNCHANGED ret
    /\ UNCHANGED <<pending, cache, requestCounter, lastCounterReset, task, counterMu, window>>
    /\ UNCHANGED CallFrame

\* Predict: addToCache
AddToCache(t) ==
    /\ calls[t].pc = "store"
    /\ cache' = [cache EXCEPT ![<<calls[t].market, calls[t].duration>>] =
                    [present |-> TRUE, Prediction |-> calls[t].prediction, Timestamp |-> now]]
    /\ calls' = [calls EXCEPT ![t].pc = "track"]
    /\ UNCHANGED <<pending, requestCounter, lastCounterReset, nextId, task, ret,
                   counterMu, window>>
    /\ UNCHANGED CallFrame

\* Predict: TrackPrediction for a direction, and the return
TrackAndReturn(t) ==
    /\ calls[t].pc = "track"
    /\ TrackPrediction(calls[t].prediction, GetLatestPrice(markets, calls[t].market))
    /\ ret' = [market |-> calls[t].market, duration |-> calls[t].duration, err |-> "none",
               pred |-> calls[t].prediction]
    /\ calls' = [calls EXCEPT ![t] = NoCall]
    /\ UNCHANGED <<cache, requestCounter, lastCounterReset, nextId, counterMu, window>>
    /\ UNCHANGED CallFrame

\* the strategy finds one UP signal strong enough to accept
ConcInputs == {[volOK |-> TRUE, signals |-> << Signal("RSI_Divergence", "UP", 6000, 55) >>]}

ConcNext ==
    \/ \E d \in TimeSteps : Advance(d, ConcHorizon)
    \/ \E t \in Callers : CallPredict(t, VolMarket, 30)
    \/ \E t \in Callers : RateLock(t)
    \/ \E t \in Callers : RateRead(t)
    \/ \E t \in Callers : RateDecide(t)
    \/ \E t \in Callers : CacheLookup(t)
    \/ \E t \in Callers : Compute(t, ConcInputs)
    \/ \E t \in Callers : AddToCache(t)
    \/ \E t \in Callers : TrackAndReturn(t)

SpecConc == ConcInit /\ [][ConcNext]_vars

\* C22: under every interleaving of concurrent Predict calls the number of
\* requests of an instrument accepted since the last reset never exceeds the
\* cap N, and it is the instrument's counter: no increment is lost and none is
\* made on a stale count.  At most one goroutine is between Lock and Unlock.
C22_CapUnderInterleaving ==
    /\ \A m \in Markets : window[m] <= maxPerMinute /\ window[m] = requestCounter[m]
    /\ Cardinality({t \in Callers : calls[t].pc \in {"read", "decide"}}) <= 1
    /\ \A t \in Callers : calls[t].pc \in {"read", "decide"} => counterMu = t

\* the cap is reached while another goroutine waits for the lock
C22_Witness ==
    /\ window[VolMarket] = maxPerMinute
    /\ \E t \in Callers : calls[t].pc = "lock"
    /\ \E t \in Callers : calls[t].pc \in {"cache", "compute", "store", "track"}

\* C26: within one cache-TTL window at most one prediction per (instrument,
\* horizon) is computed and registered as pending, also under concurrent
\* Predict calls: two pending predictions of one key are registered at least
\* a TTL apart.
C26_OnePendingPerWindow ==
    \A p, q \in DOMAIN pending :
        (p # q /\ pending[p].Market = pending[q].Market
               /\ pending[p].Duration = pending[q].Duration)
            => Abs(task[p].started - task[q].started) >= TTL(pending[p].Duration)

-----------------------------------------------------------------------------
(* Two predictions of one instrument, ten seconds or more apart, and their  *)
(* settlement goroutines side by side                                       *)

RaceNext ==
    \/ \E d \in TimeSteps : Advance(d, SettleHorizon)
    \/ \E d \in {30} : Predict(VolMarket, d, ConcInputs, MaxRaceIds)
                          /\ UNCHANGED <<acceptLog, arg, pall>>
    \/ \E id \in Ids : SettleWake(id)
    \/ \E id \in Ids : SettleStore(id)
    \/ \E id \in Ids : SettleStats(id)

SpecRace == Init /\ [][RaceNext]_vars

\* no settlement of instrument m is between its price read and its Stats write
NoSettlementInProgress(m) ==
    \A id \in Ids : task[id].pc \in {"store", "stats"} => task[id].p.Market # m

\* C25: whenever no settlement is in progress for an instrument that has
\* results, its stored Stats count its full history: TotalTrades is the
\* number of stored results and Wins the number of won ones.
C25_StatsReflectHistory ==
    \A m \in Markets :
        (NoSettlementInProgress(m) /\ Len(results[m]) > 0)
            => /\ stats[m].TotalTrades = Len(results[m])
               /\ stats[m].Wins = Cardinality({i \in 1..Len(results[m]) : results[m][i].Won})

-----------------------------------------------------------------------------
(* The rate limiter next to a copy of itself that sees only the requests of *)
(* the volatility instrument                                                *)

\* the engine's limiter state as it would be had no other instrument asked
AloneInit ==
    /\ AtRest
    /\ arg = [fn |-> "alone", requestCounter |-> [m \in Markets |-> 0],
              lastCounterReset |-> StartTime, allowed |-> TRUE]
    /\ out = NoOut

\* Engine.Predict(m, 30); a request of the volatility instrument is also put
\* to the copy
ShadowedPredict(m) ==
    /\ Predict(m, 30, StrategyInputs, MaxIds)
    /\ arg' = IF m = VolMarket
              THEN LET rl == checkRateLimit(arg.requestCounter, arg.lastCounterReset, now, m)
                   IN  [fn |-> "alone", requestCounter |-> rl.requestCounter,
                        lastCounterReset |-> rl.lastCounterReset, allowed |-> rl.allowed]
              ELSE arg
    /\ UNCHANGED <<acceptLog, pall>>

AloneNext ==
    \/ \E d \in TimeSteps : Advance(d, AloneHorizon)
    \/ \E m \in Markets : ShadowedPredict(m)

SpecAlone == AloneInit /\ [][AloneNext]_vars

\* C27: whether a request of an instrument is accepted depends only on the
\* times of the earlier requests of that instrument: the engine gives a request
\* of the volatility instrument the verdict it would give had the other
\* instrument never asked.
C27_IndependentPerInstrument ==
    ret.market = VolMarket => ((ret.err = "none") = arg.allowed)

-----------------------------------------------------------------------------
(* The two market classifiers on instrument identifiers, character by       *)
(* character: getMarketTypeHelper (engine.go) and                           *)
(* CombinedStrategy.getMarketType (volatility.go)                           *)

LowerCase == <<"a", "b", "c", "d", "e", "f", "g", "h", "i", "j", "k", "l", "m", "n", "o", "p", "q", "r", "s", "t", "u", "v", "w", "x", "y", "z">>
UpperCase == <<"A", "B", "C", "D", "E", "F", "G", "H", "I", "J", "K", "L", "M", "N", "O", "P", "Q", "R", "S", "T", "U", "V", "W", "X", "Y", "Z">>

\* strings.ToLower
ToLower(w) ==
    [i \in 1..Len(w) |->
        IF \E k \in 1..26 : UpperCase[k] = w[i]
        THEN LowerCase[CHOOSE k \in 1..26 : UpperCase[k] = w[i]]
        ELSE w[i]]

\* strings.ToUpper
ToUpper(w) ==
    [i \in 1..Len(w) |->
        IF \E k \in 1..26 : LowerCase[k] = w[i]
        THEN UpperCase[CHOOSE k \in 1..26 : LowerCase[k] = w[i]]
        ELSE w[i]]

\* strings.Contains
Contains(w, sub) ==
    \E i \in 0..(Len(w) - Len(sub)) : SubSeq(w, i + 1, i + Len(sub)) = sub

\* the currency codes of strategy.IsForexMarket
ForexCodes == {<<"A", "U", "D">>, <<"E", "U", "R">>, <<"G", "B", "P">>, <<"U", "S", "D">>, <<"J", "P", "Y">>, <<"C", "H", "F">>, <<"C", "A", "D">>, <<"N", "Z", "D">>}

\* the substrings getMarketTypeHelper takes for a sign of forex
EngineForexMarks ==
    {<<"f", "r", "x">>, <<"a", "u", "d">>, <<"e", "u", "r">>, <<"g", "b", "p">>, <<"u", "s", "d">>, <<"j", "p", "y">>, <<"c", "h", "f">>, <<"c", "a", "d">>}

\* strategy.IsForexMarket: two or more currency codes occur in the identifier
IsForexMarket(market) ==
    Cardinality({c \in ForexCodes : Contains(ToUpper(market), c)}) >= 2

\* strategy.IsCrashBoomMarket
IsCrashBoomMarket(market) ==
    \/ Contains(ToLower(market), <<"c", "r", "a", "s", "h">>)
    \/ Contains(ToLower(market), <<"b", "o", "o", "m">>)

\* strategy.IsVolatilityMarket
IsVolatilityMarket(market) ==
    \E mark \in {<<"v", "o", "l", "a", "t", "i", "l", "i", "t", "y">>, <<"v", "1", "0">>, <<"v", "2", "5">>, <<"v", "5", "0">>, <<"v", "7", "5">>, <<"v", "1", "0", "0">>} :
        Contains(ToLower(market), mark)

\* CombinedStrategy.getMarketType on an identifier
StrategyMarketType(market) ==
    IF IsForexMarket(market) THEN "forex"
    ELSE IF IsCrashBoomMarket(market) THEN "crash_boom"
    ELSE IF IsVolatilityMarket(market) THEN "volatility"
    ELSE "unknown"

\* getMarketTypeHelper on an identifier
EngineMarketType(market) ==
    LET m == ToLower(market)
    IN  IF \E mark \in EngineForexMarks : Contains(m, mark) THEN "forex"
        ELSE IF Contains(m, <<"c", "r", "a", "s", "h">>) \/ Contains(m, <<"b", "o", "o", "m">>) THEN "crash_boom"
        ELSE "volatility"

\* the identifiers of the collector's market table, and those of its pattern:
\* frx and two different currency codes, or a synthetic index (jump indices
\* are not in the table; the HTTP API passes any identifier on)
Identifiers ==
    {w \in {<<"f", "r", "x">> \o c1 \o c2 :
               c1 \in ForexCodes \cup {<<"N", "O", "K">>},
               c2 \in ForexCodes \cup {<<"N", "O", "K">>}} :
        SubSeq(w, 4, 6) # SubSeq(w, 7, 9)}
    \cup {kind \o <<"_">> \o size \o <<"_", "1", "s">> :
            kind \in {<<"v", "o", "l", "a", "t", "i", "l", "i", "t", "y">>, <<"c", "r", "a", "s", "h">>,
                      <<"b", "o", "o", "m">>, <<"j", "u", "m", "p">>},
            size \in {<<"1", "0">>, <<"2", "5">>, <<"5", "0">>, <<"7", "5">>, <<"1", "0", "0">>,
                      <<"3", "0", "0">>, <<"5", "0", "0">>, <<"1", "0", "0", "0">>}}

ClassifyInit ==
    /\ AtRest
    /\ arg \in {[fn |-> "classify", market |-> w] : w \in Identifiers}
    /\ out = NoOut

\* the engine and the strategy classify the instrument of one Predict call
ApplyClassify ==
    /\ arg.fn = "classify"
    /\ out = NoOut
    /\ out' = [fn |-> "classify", engine |-> EngineMarketType(arg.market),
               strategy |-> StrategyMarketType(arg.market)]
    /\ UNCHANGED <<system, arg>>

ClassifyNext == ApplyClassify

SpecClassify == ClassifyInit /\ [][ClassifyNext]_vars

\* C28: for every instrument identifier the category of the engine equals the
\* category of the strategy; no instrument that the engine takes for forex or
\* volatility is unknown to the strategy.
C28_SameCategory ==
    out.fn = "classify" => out.engine = out.strategy

-----------------------------------------------------------------------------
(* The cache with its periodic cleanup (startBackgroundTasks calls          *)
(* Engine.CleanupCache from a ticker), at any moment between requests       *)

\* the age, in seconds, past which CleanupCache deletes an entry
CleanupAge == 60

\* a faulty cleanup that deletes entries older than 6 s
CleanupCacheMutantShortAge ==
    /\ cache' = [k \in DOMAIN cache |->
                    IF cache[k].present /\ now - cache[k].Timestamp > 6
                    THEN NoCached ELSE cache[k]]
    /\ UNCHANGED <<now, maxTicks, markets, pending, results, stats, requestCounter,
                   lastCounterReset, nextId, task, ret, adds, arrivals, acceptLog>>
    /\ UNCHANGED <<arg, out, pall, counterMu, calls, window>>

\* Engine.CleanupCache: delete every entry older than 60 s
CleanupCache ==
    /\ cache' = [k \in DOMAIN cache |->
                    IF cache[k].present /\ now - cache[k].Timestamp > CleanupAge
                    THEN NoCached ELSE cache[k]]
    /\ UNCHANGED <<now, maxTicks, markets, pending, results, stats, requestCounter,
                   lastCounterReset, nextId, task, ret, adds, arrivals, acceptLog>>
    /\ UNCHANGED <<arg, out, pall, counterMu, calls, window>>

CleanupNext ==
    \/ \E d \in {7, 30} : Advance(d, CleanupHorizon)
    \/ \E d \in Durations : Predict(VolMarket, d, ConcInputs, MaxCleanupIds)
                               /\ UNCHANGED <<acceptLog, arg, pall>>
    \/ CleanupCache

SpecCleanup == Init /\ [][CleanupNext]_vars

\* one horizon for each lifetime getCacheTimeout knows
Horizons == {30, 90, 600, 3600}

\* C30: CleanupCache removes no entry that Predict would still serve: every
\* entry it deletes is older than the lifetime of every horizon, it changes
\* no entry otherwise, and for every key Predict finds a hit after the cleanup
\* exactly when it would have found one before, with the same Prediction.
C30_CleanupKeepsHits ==
    [][(now' = now /\ ret' = ret /\ nextId' = nextId) =>
          \A k \in DOMAIN cache :
              /\ cache'[k] # cache[k] =>
                    /\ cache'[k] = NoCached
                    /\ \A d \in Horizons : ~CacheHit(cache[k], now, getCacheTimeout(d))
              /\ CacheHit(cache'[k], now, getCacheTimeout(k[2]))
                    = CacheHit(cache[k], now, getCacheTimeout(k[2]))
              /\ CacheHit(cache[k], now, getCacheTimeout(k[2]))
                    => cache'[k].Prediction = cache[k].Prediction]_vars

\* an entry computed for the last request of its key and deleted since
C30_Witness ==
    \E k \in DOMAIN cache :
        /\ ~cache[k].present
        /\ ret.market = k[1]
        /\ ret.duration = k[2]
        /\ ret.err = "none"
        /\ ret.pred.ID # 0
        /\ now - ret.pred.Timestamp > CleanupAge

====
